---- MODULE Spec2Model ----
(***************************************************************************)
(* Model of the tfipam provider's allocation engine                        *)
(* (internal/provider/allocation_resource.go, pool_resource.go,            *)
(* provider.go).                                                           *)
(*                                                                         *)
(* Data encoding.                                                          *)
(*   net.IP      a sequence of bytes (0..255): 4 bytes for IPv4, 16 for    *)
(*               IPv6, <<>> for the nil IP.                                *)
(*   net.IPMask  a sequence of bytes, <<>> for the nil mask.               *)
(*   *net.IPNet  [IP |-> bytes, Mask |-> bytes]; NilNet for a nil pointer. *)
(*   CIDR text   [ip |-> bytes, n |-> Int]: the string "<ip>/<n>", the ip  *)
(*               written in its own family (4 bytes: dotted quad, 16       *)
(*               bytes: IPv6 text).  BadText is a string that is no CIDR.  *)
(*   Go int      8 bytes, big-endian two's complement (64-bit platform);   *)
(*               loop counters, which stay small, are plain integers.      *)
(***************************************************************************)
EXTENDS Integers, Sequences, FiniteSets, Bags, TLC

----------------------------------------------------------------------------
(* Byte-level helpers *)

Pow2(n) == 2 ^ n

\* a & m for a mask byte m = 0xFF << k (every mask here comes from CIDRMask)
AndMask(a, m) == a - (a % (256 - m))

\* a | ^m for a mask byte m = 0xFF << k
OrNotMask(a, m) == AndMask(a, m) + (255 - m)

v4InV6Prefix == <<0, 0, 0, 0, 0, 0, 0, 0, 0, 0, 255, 255>>

\* net.IP.To4: the 4-byte form of an IPv4 or IPv4-mapped address, else nil
To4(ip) ==
  IF Len(ip) = 4 THEN ip
  ELSE IF Len(ip) = 16 /\ SubSeq(ip, 1, 12) = v4InV6Prefix THEN SubSeq(ip, 13, 16)
  ELSE <<>>

\* net.CIDRMask(ones, bits)
CIDRMask(ones, bits) ==
  IF bits # 32 /\ bits # 128 THEN <<>>
  ELSE IF ones < 0 \/ ones > bits THEN <<>>
  ELSE [i \in 1..(bits \div 8) |->
          IF ones >= 8 * i THEN 255
          ELSE IF ones <= 8 * (i - 1) THEN 0
          ELSE 256 - Pow2(8 - (ones - 8 * (i - 1)))]

\* leading one bits of a mask byte, -1 when the byte is not 1...10...0
LeadingOnes(b) ==
  CASE b = 255 -> 8 [] b = 254 -> 7 [] b = 252 -> 6 [] b = 248 -> 5
    [] b = 240 -> 4 [] b = 224 -> 3 [] b = 192 -> 2 [] b = 128 -> 1
    [] b = 0 -> 0 [] OTHER -> -1

\* n more ones after a 0xFF byte, unless the rest was not canonical
EightMore(r) == IF r = -1 THEN -1 ELSE 8 + r

\* the ones of the first byte that is not 0xFF, which must end the ones
LastOnes(ones, restIsZero) == IF ones = -1 \/ ~restIsZero THEN -1 ELSE ones

RECURSIVE simpleMaskLength(_)
\* net.simpleMaskLength: the number of leading ones, -1 if not canonical
simpleMaskLength(mask) ==
  IF mask = <<>> THEN 0
  ELSE IF Head(mask) = 255 THEN EightMore(simpleMaskLength(Tail(mask)))
  ELSE LastOnes(LeadingOnes(Head(mask)), \A j \in 2..Len(mask) : mask[j] = 0)

\* Size's result for a mask of n bytes whose simpleMaskLength is ones
SizeOf(ones, n) == IF ones = -1 THEN <<0, 0>> ELSE <<ones, 8 * n>>

\* net.IPMask.Size: <<ones, bits>>
MaskSize(mask) == SizeOf(simpleMaskLength(mask), Len(mask))

\* net.IP.Mask
IPMaskWith(ip, mask) ==
  LET m == IF Len(mask) = 16 /\ Len(ip) = 4 /\ (\A j \in 1..12 : mask[j] = 255)
           THEN SubSeq(mask, 13, 16) ELSE mask
      p == IF Len(m) = 4 /\ Len(ip) = 16 /\ SubSeq(ip, 1, 12) = v4InV6Prefix
           THEN SubSeq(ip, 13, 16) ELSE ip
  IN IF Len(p) # Len(m) THEN <<>>
     ELSE [i \in 1..Len(p) |-> AndMask(p[i], m[i])]

NilNet == [IP |-> <<>>, Mask |-> <<>>]

\* if x := ip.To4(); x != nil { ip = x }
OrSelf(x, ip) == IF x # <<>> THEN x ELSE ip

\* networkNumberAndMask's body, ip4 being n.IP.To4()
numberAndMask(ip4, nIP, nMask) ==
  IF ip4 = <<>> /\ Len(nIP) # 16 THEN <<(<<>>), (<<>>)>>
  ELSE IF Len(nMask) = 4
    THEN (IF Len(OrSelf(ip4, nIP)) # 4 THEN <<(<<>>), (<<>>)>>
          ELSE <<OrSelf(ip4, nIP), nMask>>)
  ELSE IF Len(nMask) = 16
    THEN (IF Len(OrSelf(ip4, nIP)) = 4 THEN <<OrSelf(ip4, nIP), SubSeq(nMask, 13, 16)>>
          ELSE <<OrSelf(ip4, nIP), nMask>>)
  ELSE <<(<<>>), (<<>>)>>

\* net.networkNumberAndMask: <<ip, mask>>, <<nil, nil>> when malformed
networkNumberAndMask(n) == numberAndMask(To4(n.IP), n.IP, n.Mask)

\* the comparison loop of Contains over network number nn, mask m and address x
SameNetwork(nn, m, x) ==
  /\ Len(x) = Len(nn)
  /\ \A i \in 1..Len(x) : AndMask(nn[i], m[i]) = AndMask(x[i], m[i])

\* Contains, given the result nm of networkNumberAndMask
ContainsNM(nm, x) == SameNetwork(nm[1], nm[2], x)

\* net.IPNet.Contains
Contains(n, ip) == ContainsNM(networkNumberAndMask(n), OrSelf(To4(ip), ip))

----------------------------------------------------------------------------
(* Go int arithmetic (64-bit, wrapping), on 8 big-endian bytes *)

I64Zero == <<0, 0, 0, 0, 0, 0, 0, 0>>

\* uint(d) for a Go int d is at least 64 when d < 0, and a shift by 64 or more
\* yields 0: this is  1 << uint(d)
I64Shl1(d) ==
  IF d < 0 \/ d >= 64 THEN I64Zero
  ELSE [i \in 1..8 |-> IF 8 - i = d \div 8 THEN Pow2(d % 8) ELSE 0]

\* x > 0 as a signed 64-bit integer
I64Positive(x) == x[1] < 128 /\ x # I64Zero

\* i < x for a small non-negative counter i and a signed 64-bit x
I64Above(x, i) ==
  /\ x[1] < 128
  /\ \/ \E j \in 1..5 : x[j] # 0
     \/ x[6] * 65536 + x[7] * 256 + x[8] > i

RECURSIVE MulBytes(_, _, _, _)
\* bytes 1..i of k * x, the carry coming from the bytes to the right
MulBytes(x, k, i, carry) ==
  IF i = 0 THEN <<>>
  ELSE LET t == k * x[i] + carry
       IN Append(MulBytes(x, k, i - 1, t \div 256), t % 256)

\* k * x, wrapping at 64 bits (k a small non-negative integer)
I64MulSmall(k, x) == MulBytes(x, k, 8, 0)

RECURSIVE AddBytes(_, _, _, _)
\* bytes 1..i of a + b over equally long byte strings, wrapping at their width
AddBytes(a, b, i, carry) ==
  IF i = 0 THEN <<>>
  ELSE LET t == a[i] + b[i] + carry
       IN Append(AddBytes(a, b, i - 1, t \div 256), t % 256)

\* x + b for a byte b, wrapping at 64 bits
I64AddByte(x, b) == AddBytes(x, <<0, 0, 0, 0, 0, 0, 0, b>>, 8, 0)

\* x >> 8 (arithmetic shift of a signed integer)
I64Sar8(x) == <<IF x[1] >= 128 THEN 255 ELSE 0>> \o SubSeq(x, 1, 7)

----------------------------------------------------------------------------
(* allocation_resource.go: address arithmetic *)

RECURSIVE addIPv6Loop(_, _, _)
\* for i := len(ip)-1; i >= 0 && offset > 0; i-- { ... }   (i is 1-based here)
addIPv6Loop(ip, i, offset) ==
  IF i >= 1 /\ I64Positive(offset)
  THEN LET o == I64AddByte(offset, ip[i])
       IN addIPv6Loop([ip EXCEPT ![i] = o[8]], i - 1, I64Sar8(o))
  ELSE ip

\* addIPOffset: the ip after adding blockIndex blocks of 2^(totalBits-prefixLength)
addIPOffset(ip, blockIndex, prefixLength, totalBits) ==
  LET hostBits == totalBits - prefixLength
      blockSize == I64Shl1(hostBits)
      offset == I64MulSmall(blockIndex, blockSize)
  IN IF Len(ip) = 4
     THEN AddBytes(ip, SubSeq(offset, 5, 8), 4, 0)
     ELSE addIPv6Loop(ip, Len(ip), offset)

\* getLastIPInCIDR
getLastIPInCIDR(cidr) ==
  [i \in 1..Len(cidr.IP) |-> OrNotMask(cidr.IP[i], cidr.Mask[i])]

RECURSIVE cidrsOverlap(_, _)
\* cidrsOverlap: allocated is the slice, scanned front to back
cidrsOverlap(candidate, allocated) ==
  IF allocated = <<>> THEN FALSE
  ELSE LET allocNet == Head(allocated)
       IN IF Contains(candidate, allocNet.IP) \/ Contains(allocNet, candidate.IP)
          THEN TRUE
          ELSE IF \/ Contains(candidate, getLastIPInCIDR(allocNet))
                  \/ Contains(allocNet, getLastIPInCIDR(candidate))
          THEN TRUE
          ELSE cidrsOverlap(candidate, Tail(allocated))

----------------------------------------------------------------------------
(* Bounds of the model *)

\* most blocks of a request's size that one registered allocation may cover
\* in a range with more blocks than that, for the request to be drawn: the
\* search passes the covered blocks one by one, and has no limit of its own
MaxScan == 32

----------------------------------------------------------------------------
(* CIDR text: parsing and formatting *)

BadText == [ip |-> <<>>, n |-> -1]

\* net.ParseCIDR: the *IPNet, or NilNet on error
ParseCIDR(text) ==
  IF Len(text.ip) # 4 /\ Len(text.ip) # 16 THEN NilNet
  ELSE IF text.n < 0 \/ text.n > 8 * Len(text.ip) THEN NilNet
  ELSE LET m == CIDRMask(text.n, 8 * Len(text.ip))
           addr16 == IF Len(text.ip) = 4 THEN v4InV6Prefix \o text.ip ELSE text.ip
       IN [IP |-> IPMaskWith(addr16, m), Mask |-> m]

\* net.ParseCIDR's err != nil
ParseFails(text) ==
  \/ Len(text.ip) # 4 /\ Len(text.ip) # 16
  \/ text.n < 0 \/ text.n > 8 * Len(text.ip)

\* IPNet.String's body, nm being the result of networkNumberAndMask
stringOf(nm) ==
  IF nm[1] = <<>> \/ nm[2] = <<>> THEN BadText
  ELSE [ip |-> nm[1], n |-> simpleMaskLength(nm[2])]

\* net.IPNet.String
NetString(n) == stringOf(networkNumberAndMask(n))

----------------------------------------------------------------------------
(* allocation_resource.go: allocation search *)

\* the candidate of loop iteration i (lines 309-315), bits being the pool
\* mask's width and requestedMask = net.CIDRMask(prefixLength, bits)
candidateNet(baseIP, prefixLength, bits, requestedMask, i) ==
  [IP |-> IPMaskWith(addIPOffset(baseIP, i, prefixLength, bits), requestedMask),
   Mask |-> requestedMask]

\* lines 317-324 alone: the overlap check of lines 326-329 left out
candidateInPoolOnly(poolNet, candidate, allocatedCIDRs) ==
  /\ Contains(poolNet, candidate.IP)
  /\ Contains(poolNet, getLastIPInCIDR(candidate))

\* lines 317-329: the candidate lies in the pool and overlaps no allocation
candidateFree(poolNet, candidate, allocatedCIDRs) ==
  /\ Contains(poolNet, candidate.IP)
  /\ Contains(poolNet, getLastIPInCIDR(candidate))
  /\ ~cidrsOverlap(candidate, allocatedCIDRs)

RECURSIVE scanBlocks(_, _, _, _, _, _)
\* for i := 0; i < numBlocks; i++ { ... } from iteration i on.
\* When the block size 1 << hostBits is 0 or negative (hostBits < 0 or >= 63)
\* the offset i * blockSize is never positive and has zero low 32 bits, so
\* every iteration recomputes the candidate of iteration 0: the loop's result
\* is then decided by its first iteration, and the model stops there.
scanBlocks(poolNet, prefixLength, bits, allocatedCIDRs, numBlocks, i) ==
  IF ~I64Above(numBlocks, i) THEN NilNet
  ELSE IF candidateFree(poolNet,
            candidateNet(poolNet.IP, prefixLength, bits,
                         CIDRMask(prefixLength, bits), i),
            allocatedCIDRs)
  THEN candidateNet(poolNet.IP, prefixLength, bits, CIDRMask(prefixLength, bits), i)
  ELSE IF ~I64Positive(I64Shl1(bits - prefixLength)) THEN NilNet
  ELSE scanBlocks(poolNet, prefixLength, bits, allocatedCIDRs, numBlocks, i + 1)

\* numBlocks := 1 << uint(blockSizeDiff)   (line 301)
numBlocks(blockSizeDiff) == I64Shl1(blockSizeDiff)

\* findAvailableCIDR after  poolPrefixLen, bits := poolNet.Mask.Size()
findAvailableSized(poolNet, prefixLength, allocatedCIDRs, size) ==
  IF prefixLength - size[1] < 0 THEN NilNet
  ELSE scanBlocks(poolNet, prefixLength, size[2], allocatedCIDRs,
                  numBlocks(prefixLength - size[1]), 0)

\* findAvailableCIDR: the free block, NilNet for nil
findAvailableCIDR(poolNet, prefixLength, allocatedCIDRs) ==
  findAvailableSized(poolNet, prefixLength, allocatedCIDRs, MaskSize(poolNet.Mask))

\* fmt.Sprintf("%s-%s", poolName, allocatedIP): the pair stands for the joined
\* string (pool names hold no '-', so the pair and the string determine each other)
AllocationID(poolName, allocatedIP) == <<poolName, allocatedIP>>

\* lines 247-253 for one map entry: its parsed CIDR, if it is of this pool and parses
allocatedOf(alloc, poolName, allocNet) ==
  IF alloc.PoolName = poolName /\ allocNet # NilNet THEN <<allocNet>> ELSE <<>>

\* the collection loop leaving after the first map entry
collectFirstOnly(order, poolName) ==
  IF order = <<>> THEN <<>>
  ELSE allocatedOf(Head(order), poolName, ParseCIDR(Head(order).AllocatedIP))

RECURSIVE collectAllocated(_, _)
\* lines 245-254: the parsed CIDRs of this pool's allocations, in the order the
\* map iteration yields them; entries whose text does not parse are skipped
collectAllocated(order, poolName) ==
  IF order = <<>> THEN <<>>
  ELSE allocatedOf(Head(order), poolName, ParseCIDR(Head(order).AllocatedIP))
       \o collectAllocated(Tail(order), poolName)

\* candidateCIDR if the range produced one, else what the later ranges produce
firstNonNil(candidateCIDR, later) == IF candidateCIDR = NilNet THEN later ELSE candidateCIDR

\* a request larger than the range served as a request for the whole range,
\* instead of skipping the range
searchRangeClamped(poolNet, prefixLength, allocatedCIDRs) ==
  IF poolNet = NilNet THEN NilNet
  ELSE IF prefixLength < MaskSize(poolNet.Mask)[1]
  THEN findAvailableCIDR(poolNet, MaskSize(poolNet.Mask)[1], allocatedCIDRs)
  ELSE findAvailableCIDR(poolNet, prefixLength, allocatedCIDRs)

\* lines 258-285 for one range: poolNet is the parsed range (NilNet: parse error)
searchRange(poolNet, prefixLength, allocatedCIDRs) ==
  IF poolNet = NilNet THEN NilNet
  ELSE IF prefixLength < MaskSize(poolNet.Mask)[1] THEN NilNet
  ELSE findAvailableCIDR(poolNet, prefixLength, allocatedCIDRs)

RECURSIVE searchRanges(_, _, _)
\* lines 257-286: the first candidate over the pool's CIDR list, in list order
searchRanges(cidrs, prefixLength, allocatedCIDRs) ==
  IF cidrs = <<>> THEN NilNet
  ELSE firstNonNil(searchRange(ParseCIDR(Head(cidrs)), prefixLength, allocatedCIDRs),
                   searchRanges(Tail(cidrs), prefixLength, allocatedCIDRs))

\* a return without an allocation
Failed(err, allocs) ==
  [err |-> err, allocatedIP |-> BadText, allocationID |-> <<>>, allocations |-> allocs]

\* a registration that starts from an empty map
registerAllocationAlone(allocs, poolName, prefixLength, allocatedIP, allocationID) ==
  [err |-> "", allocatedIP |-> allocatedIP, allocationID |-> allocationID,
   allocations |->
     [id \in {allocationID} |->
        [ID |-> allocationID, PoolName |-> poolName,
         AllocatedIP |-> allocatedIP, PrefixLength |-> prefixLength]]]

\* lines 273-284: register the allocation and return it
registerAllocation(allocs, poolName, prefixLength, allocatedIP, allocationID) ==
  [err |-> "", allocatedIP |-> allocatedIP, allocationID |-> allocationID,
   allocations |->
     [id \in DOMAIN allocs \cup {allocationID} |->
        IF id = allocationID
        THEN [ID |-> allocationID, PoolName |-> poolName,
              AllocatedIP |-> allocatedIP, PrefixLength |-> prefixLength]
        ELSE allocs[id]]]

\* lines 272-288, candidateCIDR being what the loop over the ranges found
allocateFound(allocs, poolName, prefixLength, candidateCIDR) ==
  IF candidateCIDR = NilNet THEN Failed("no available CIDR blocks", allocs)
  ELSE registerAllocation(allocs, poolName, prefixLength, NetString(candidateCIDR),
                          AllocationID(poolName, NetString(candidateCIDR)))

----------------------------------------------------------------------------
(* State *)

VARIABLES
  pools,        \* IpamProvider.pools: pool name -> Pool
  allocations,  \* IpamProvider.allocations: allocation id -> Allocation
  mu,           \* IpamProvider.mu: "free", or the worker holding the write lock
  pc,           \* per worker: the handler it is inside, with its arguments
  tfAllocs,     \* Terraform's state: the allocation resources created and not
                \* yet destroyed (a bag: one entry per successful Create)
  obs,          \* the last allocation request that returned, with its result
  provider      \* r.provider of the resources: the IpamProvider their Configure
                \* was handed, or nil

VARIABLES
  remote,       \* the object, blob or file the storage backends persist to
  store,        \* per store instance: what Factory returned, and its data
  smu,          \* per store instance: its mu (sync.RWMutex)
  call,         \* per caller: the store call it is in, or the one that returned
  settled,      \* per store instance and key: what the last successful
                \* mutation of the key left, while nothing has touched it since
  calls         \* how many store calls the callers have made

storeVars == <<remote, store, smu, call, settled, calls>>

vars ==
  <<pools, allocations, mu, pc, tfAllocs, obs, provider,
    remote, store, smu, call, settled, calls>>

EmptyMap == [x \in {} |-> x]

MapPut(m, k, v) == [x \in DOMAIN m \cup {k} |-> IF x = k THEN v ELSE m[x]]

MapDelete(m, k) == [x \in DOMAIN m \ {k} |-> m[x]]

\* the sequences that enumerate the set S once each
Orders(S) ==
  {f \in [1..Cardinality(S) -> S] : \A i, j \in 1..Cardinality(S) : f[i] = f[j] => i = j}

\* the orders in which a range over the allocations map may visit its entries
MapOrders(m) == Orders({m[id] : id \in DOMAIN m})

Idle == [op |-> "idle"]

NoObs == [op |-> "none"]

\* r.provider: nil until Configure is handed the provider (pool_resource.go
\* 66-82, allocation_resource.go 77-93)
NilProvider == "nil"
Providers == {NilProvider, "IpamProvider"}

\* the store instances a process may hold, and the callers of their operations
Instances == {"s1", "s2"}
Callers == {"w1", "w2"}

\* no object under the configured key; no instance built; mu not held; a
\* caller in no call; no key settled
NoObject == [kind |-> "absent"]
NotBuilt == [state |-> "none"]
Unlocked == [writer |-> "", readers |-> {}]
NoCall ==
  [op |-> "none", at |-> "idle", inst |-> "", key |-> "", arg |-> <<>>,
   err |-> "", pools |-> <<>>, allocs |-> <<>>, puts |-> 0,
   put |-> "", body |-> NoObject]
NoneSettled == [Pools |-> EmptyMap, Allocations |-> EmptyMap]

\* the storage package is not in use
StoreUnused ==
  /\ remote = NoObject
  /\ store = [i \in Instances |-> NotBuilt]
  /\ smu = [i \in Instances |-> Unlocked]
  /\ call = [c \in Callers |-> NoCall]
  /\ settled = [i \in Instances |-> NoneSettled]
  /\ calls = 0

----------------------------------------------------------------------------
(* Inputs *)

\* most allocations registered at once under the adapter specification
MaxAllocs == 2

\* most allocations registered at once under the search specification
MaxSearchAllocs == 3

\* a new allocation request is taken only while the allocations registered
\* and the requests under way are fewer than max
Room(max) ==
  Cardinality(DOMAIN allocations)
    + Cardinality({w \in DOMAIN pc :
                     pc[w].op \in {"lock", "allocate", "search", "range", "block"}}) < max

T4(a, b, c, d, n) == [ip |-> <<a, b, c, d>>, n |-> n]

T6(a, b, c, d, tail, n) ==
  [ip |-> <<a, b, c, d, 0, 0, 0, 0, 0, 0, 0, 0, 0, 0, 0, tail>>, n |-> n]

PoolNames == {"p", "q"}

Workers == {"w1", "w2"}

\* CIDR lists given to pool create and update by the adapter specification
AdapterLists ==
  { <<T4(10, 0, 0, 0, 31)>>,
    <<T4(10, 0, 0, 2, 31), T4(10, 0, 0, 0, 31)>>,
    <<BadText>> }

\* prefix lengths requested under the adapter specification
AdapterPrefixLens == {-1, 31, 32, 129}

----------------------------------------------------------------------------
(* Handlers.  A handler whose whole effect is one map write under the lock   *)
(* (Lock; write; Unlock) is one step, enabled when the lock is free.         *)

\* a Lock that does not wait for the holder to release
LockNoExclusion(w) == mu' = w

\* r.provider.mu.Lock(): blocks until no one holds the lock, then takes it
Lock(w) == mu = "free" /\ mu' = w

\* r.provider.mu.Unlock()
Unlock(w) == mu' = "free"

\* a validation that looks at the first element of the list only
invalidCIDRFirstOnly(cidrs) == Len(cidrs) > 0 /\ ParseFails(cidrs[1])

\* the validation loop of PoolResource.Create and Update (pool_resource.go
\* 99-107, 181-189): TRUE when net.ParseCIDR refuses an element of the list
invalidCIDR(cidrs) == \E i \in 1..Len(cidrs) : ParseFails(cidrs[i])

\* a registration that drops the repeated elements of the list
PoolDistinct(name, cidrs) ==
  LET d[i \in 0..Len(cidrs)] ==
        IF i = 0 THEN <<>>
        ELSE IF \E j \in 1..(i - 1) : cidrs[j] = cidrs[i] THEN d[i - 1]
             ELSE Append(d[i - 1], cidrs[i])
  IN [Name |-> name, CIDRs |-> d[Len(cidrs)]]

\* the struct literal Pool{Name: ..., CIDRs: cidrs} (pool_resource.go 125-128,
\* 198-201): the list is the slice that was validated, as it is
Pool(name, cidrs) == [Name |-> name, CIDRs |-> cidrs]

\* PoolResource.Create (pool_resource.go 84-133): the list is validated; the
\* pool is registered when the resource has its provider (line 123)
PoolCreate(w, name, cidrs) ==
  /\ pc[w] = Idle
  /\ IF invalidCIDR(cidrs)
     THEN UNCHANGED pools                             \* "Invalid CIDR"
     ELSE IF provider = NilProvider
     THEN UNCHANGED pools                             \* line 123: nothing registered
     ELSE /\ mu = "free"
          /\ pools' = MapPut(pools, name, Pool(name, cidrs))
  /\ UNCHANGED <<allocations, mu, pc, tfAllocs>>

\* PoolResource.Update (pool_resource.go 165-213): as Create, whether or not
\* the pool is registered (line 196)
PoolUpdate(w, name, cidrs) ==
  /\ pc[w] = Idle
  /\ IF invalidCIDR(cidrs)
     THEN UNCHANGED pools                             \* "Invalid CIDR"
     ELSE IF provider = NilProvider
     THEN UNCHANGED pools                             \* line 196: nothing registered
     ELSE /\ mu = "free"
          /\ pools' = MapPut(pools, name, Pool(name, cidrs))
  /\ UNCHANGED <<allocations, mu, pc, tfAllocs>>

\* PoolResource.Delete's scan (pool_resource.go 224-231): TRUE when a
\* registered allocation names the pool
hasAllocations(name) ==
  \E id \in DOMAIN allocations : allocations[id].PoolName = name

\* PoolResource.Delete, first critical section (pool_resource.go 223-241):
\* RLock; scan the allocations; RUnlock; return an error if one names the
\* pool.  Without a provider nothing is scanned or removed (line 224).
PoolDeleteCheck(w, name) ==
  /\ pc[w] = Idle
  /\ IF provider = NilProvider
     THEN UNCHANGED pc
     ELSE /\ mu = "free"
          /\ pc' = [pc EXCEPT ![w] =
                     IF hasAllocations(name) THEN Idle        \* "Cannot Delete Pool"
                     ELSE [op |-> "pool_delete", name |-> name]]
  /\ UNCHANGED <<pools, allocations, mu, tfAllocs>>

\* PoolResource.Delete, second critical section (pool_resource.go 243-246):
\* Lock; delete(pools, name); Unlock
PoolDeleteRemove(w) ==
  /\ pc[w].op = "pool_delete"
  /\ mu = "free"
  /\ pools' = MapDelete(pools, pc[w].name)
  /\ pc' = [pc EXCEPT ![w] = Idle]
  /\ UNCHANGED <<allocations, mu, tfAllocs>>

\* a Create that calls allocateCIDRFromPool with any prefix length
AllocCreateUnchecked(w, poolName, prefixLength) ==
  /\ pc[w] = Idle
  /\ pc' = [pc EXCEPT ![w] = [op |-> "lock", poolName |-> poolName,
                               prefixLength |-> prefixLength]]
  /\ UNCHANGED <<pools, allocations, mu, tfAllocs>>

\* AllocationResource.Create up to its call of allocateCIDRFromPool
\* (allocation_resource.go 95-115): the prefix length is validated first
AllocCreate(w, poolName, prefixLength) ==
  /\ pc[w] = Idle
  /\ IF prefixLength < 0 \/ prefixLength > 128
     THEN UNCHANGED pc                                \* "Invalid Prefix Length"
     ELSE pc' = [pc EXCEPT ![w] = [op |-> "lock", poolName |-> poolName,
                                    prefixLength |-> prefixLength]]
  /\ UNCHANGED <<pools, allocations, mu, tfAllocs>>

\* allocateCIDRFromPool, lines 231-236: without a provider the call returns
\* "provider not configured" and Create reports it; with one the call waits
\* for the lock and takes it
allocateLock(w) ==
  /\ pc[w].op = "lock"
  /\ IF provider = NilProvider
     THEN /\ pc' = [pc EXCEPT ![w] = Idle]
          /\ UNCHANGED mu
     ELSE /\ Lock(w)
          /\ pc' = [pc EXCEPT ![w] = [op |-> "allocate", poolName |-> pc[w].poolName,
                                       prefixLength |-> pc[w].prefixLength]]
  /\ UNCHANGED <<pools, allocations, tfAllocs>>

\* allocateCIDRFromPool, lines 238-254, inside the lock: look the pool up and
\* collect the pool's allocated CIDRs; order is the map iteration's order
allocateCollect(w, order) ==
  /\ pc[w].op = "allocate"
  /\ IF pc[w].poolName \notin DOMAIN pools
     THEN /\ Unlock(w)                                \* "pool %s not found"
          /\ pc' = [pc EXCEPT ![w] = Idle]
     ELSE /\ pc' = [pc EXCEPT ![w] =
                      [op |-> "search", poolName |-> pc[w].poolName,
                       prefixLength |-> pc[w].prefixLength,
                       pool |-> pools[pc[w].poolName],
                       allocatedCIDRs |-> collectAllocated(order, pc[w].poolName)]]
          /\ UNCHANGED mu
  /\ UNCHANGED <<pools, allocations, tfAllocs>>

\* the outcome of allocateCIDRFromPool (lines 231-288): err, the returned
\* allocatedIP and allocationID, and the allocations map after.  order lists
\* the map's entries in the order this call's iteration visits them.
allocateCIDRFromPool(poolsMap, allocs, order, poolName, prefixLength) ==
  IF provider = NilProvider THEN Failed("provider not configured", allocs)
  ELSE IF poolName \notin DOMAIN poolsMap THEN Failed("pool not found", allocs)
  ELSE allocateFound(allocs, poolName, prefixLength,
         searchRanges(poolsMap[poolName].CIDRs, prefixLength,
                      collectAllocated(order, poolName)))

\* what lines 256-288 return for worker w, which has collected allocatedCIDRs
searchOutcome(w) ==
  allocateFound(allocations, pc[w].poolName, pc[w].prefixLength,
                searchRanges(pc[w].pool.CIDRs, pc[w].prefixLength,
                             pc[w].allocatedCIDRs))

\* the request of worker w after allocateCIDRFromPool has returned data to
\* Create, which has yet to set the resource's state
Created(data) == [op |-> "created", data |-> data]

\* allocateCIDRFromPool returns out: the map is as the call left it and the
\* deferred Unlock of line 236 runs.  On an error Create reports it and
\* returns (lines 116-122); else Create goes on, outside the lock.
returned(w, out) ==
  /\ allocations' = out.allocations
  /\ Unlock(w)
  /\ pc' = [pc EXCEPT ![w] = IF out.err = "" THEN Created(out.allocations[out.allocationID])
                             ELSE Idle]
  /\ UNCHANGED <<pools, tfAllocs>>

\* allocateCIDRFromPool, lines 256-288, inside the lock: search, register,
\* return through the deferred Unlock
allocateSearch(w) ==
  /\ pc[w].op = "search"
  /\ returned(w, searchOutcome(w))

\* AllocationResource.Create after the call (allocation_resource.go 124-133):
\* the resource is put in Terraform's state
AllocCreateSet(w) ==
  /\ pc[w].op = "created"
  /\ tfAllocs' = tfAllocs (+) SetToBag({pc[w].data})
  /\ pc' = [pc EXCEPT ![w] = Idle]
  /\ UNCHANGED <<pools, allocations, mu>>

\* Terraform holds a resource data that no Delete is running on; it runs one
\* operation at a time on a resource
Deleting(data) == {w \in Workers : pc[w] = [op |-> "deleted", data |-> data]}
InState(data) == CopiesIn(data, tfAllocs) > Cardinality(Deleting(data))

\* AllocationResource.Read (allocation_resource.go 136-157): re-registers the
\* allocation Terraform holds, when the resource has its provider (line 145)
AllocRead(w, data) ==
  /\ pc[w] = Idle
  /\ InState(data)
  /\ IF provider = NilProvider
     THEN UNCHANGED allocations
     ELSE /\ mu = "free"
          /\ allocations' = MapPut(allocations, data.ID, data)
  /\ UNCHANGED <<pools, mu, pc, tfAllocs>>

\* a Delete that leaves the allocation registered
AllocDeleteStateOnly(w, data) ==
  /\ pc[w] = Idle
  /\ InState(data)
  /\ pc' = [pc EXCEPT ![w] = [op |-> "deleted", data |-> data]]
  /\ UNCHANGED <<pools, allocations, mu, tfAllocs>>

\* AllocationResource.Delete (allocation_resource.go 171-190): Lock;
\* delete(allocations, id); Unlock, when the resource has its provider (line
\* 180); the handler has yet to return
AllocDelete(w, data) ==
  /\ pc[w] = Idle
  /\ InState(data)
  /\ IF provider = NilProvider
     THEN UNCHANGED allocations
     ELSE /\ mu = "free"
          /\ allocations' = MapDelete(allocations, data.ID)
  /\ pc' = [pc EXCEPT ![w] = [op |-> "deleted", data |-> data]]
  /\ UNCHANGED <<pools, mu, tfAllocs>>

\* Delete has returned without error: the resource leaves Terraform's state
AllocDeleteReturn(w) ==
  /\ pc[w].op = "deleted"
  /\ tfAllocs' = tfAllocs (-) SetToBag({pc[w].data})
  /\ pc' = [pc EXCEPT ![w] = Idle]
  /\ UNCHANGED <<pools, allocations, mu>>

\* AllocationResource.ImportState (allocation_resource.go 192-215): without
\* a provider "Provider Not Configured"; else RLock; look the id up; RUnlock;
\* "Allocation Not Found" when the id is not registered
AllocImport(w, id) ==
  /\ pc[w] = Idle
  /\ IF provider = NilProvider
     THEN UNCHANGED pc
     ELSE /\ mu = "free"
          /\ pc' = [pc EXCEPT ![w] =
                     IF id \in DOMAIN allocations
                     THEN [op |-> "imported", data |-> allocations[id]]
                     ELSE Idle]
  /\ UNCHANGED <<pools, allocations, mu, tfAllocs>>

\* ImportState, lines 217-224: the allocation that was found is put in
\* Terraform's state
AllocImportSet(w) ==
  /\ pc[w].op = "imported"
  /\ tfAllocs' = tfAllocs (+) SetToBag({pc[w].data})
  /\ pc' = [pc EXCEPT ![w] = Idle]
  /\ UNCHANGED <<pools, allocations, mu>>

----------------------------------------------------------------------------
(* The adapter: two workers, two pools.  The observer is not kept here. *)

\* the pools allocations are requested from; the other pool is created,
\* updated and deleted beside them
AllocPools == {"p"}

Init ==
  /\ pools = EmptyMap
  /\ allocations = EmptyMap
  /\ mu = "free"
  /\ pc = [w \in Workers |-> Idle]
  /\ tfAllocs = EmptyBag
  /\ obs = NoObs
  /\ provider \in Providers
  /\ StoreUnused

Next ==
  \E w \in Workers :
    \/ \E name \in PoolNames, cidrs \in AdapterLists :
         PoolCreate(w, name, cidrs) /\ UNCHANGED <<obs, provider, storeVars>>
    \/ \E name \in PoolNames, cidrs \in AdapterLists :
         PoolUpdate(w, name, cidrs) /\ UNCHANGED <<obs, provider, storeVars>>
    \/ \E name \in PoolNames : PoolDeleteCheck(w, name) /\ UNCHANGED <<obs, provider, storeVars>>
    \/ PoolDeleteRemove(w) /\ UNCHANGED <<obs, provider, storeVars>>
    \/ \E name \in AllocPools, l \in AdapterPrefixLens :
         Room(MaxAllocs) /\ AllocCreate(w, name, l) /\ UNCHANGED <<obs, provider, storeVars>>
    \/ allocateLock(w) /\ UNCHANGED <<obs, provider, storeVars>>
    \/ \E order \in MapOrders(allocations) : allocateCollect(w, order) /\ UNCHANGED <<obs, provider, storeVars>>
    \/ allocateSearch(w) /\ UNCHANGED <<obs, provider, storeVars>>
    \/ AllocCreateSet(w) /\ UNCHANGED <<obs, provider, storeVars>>
    \/ \E data \in BagToSet(tfAllocs) : AllocRead(w, data) /\ UNCHANGED <<obs, provider, storeVars>>
    \/ \E data \in BagToSet(tfAllocs) : AllocDelete(w, data) /\ UNCHANGED <<obs, provider, storeVars>>
    \/ AllocDeleteReturn(w) /\ UNCHANGED <<obs, provider, storeVars>>

Spec == Init /\ [][Next]_vars

----------------------------------------------------------------------------
(* The allocation search on its own: one pool "p", one caller "w1", the pool *)
(* registered with a CIDR list drawn from SearchLists; every request and     *)
(* its result are kept in obs.                                               *)

\* the pools of the search specification, each with the prefix lengths
\* requested from it: IPv4 ranges, IPv6 ranges, both, and IPv6 ranges of
\* IPv4-mapped addresses (::ffff:10.0.0.0/127, and ::ffff:0:0/96 behind ::/0)
SearchCases ==
  { [cidrs |-> <<>>, lens |-> {24}],
    [cidrs |-> <<T4(10, 0, 0, 0, 24)>>, lens |-> {16, 24, 40}],
    [cidrs |-> <<T4(10, 0, 0, 0, 16)>>, lens |-> {24, 27}],
    [cidrs |-> <<T4(10, 5, 0, 3, 30), T4(10, 0, 0, 0, 30)>>, lens |-> {30, 31, 32}],
    [cidrs |-> <<T4(0, 0, 0, 0, 0)>>, lens |-> {0, 32}],
    [cidrs |-> <<T6(0, 0, 0, 0, 0, 0)>>, lens |-> {0, 128}],
    [cidrs |-> <<T6(32, 1, 13, 184, 0, 32)>>, lens |-> {48, 56, 64}],
    [cidrs |-> <<T6(32, 1, 13, 184, 0, 64)>>, lens |-> {65, 66}],
    [cidrs |-> <<T6(32, 1, 13, 184, 0, 126)>>, lens |-> {127, 128}],
    [cidrs |-> <<T6(32, 1, 13, 184, 0, 32), T6(32, 1, 13, 185, 0, 32)>>, lens |-> {48}],
    [cidrs |-> <<T4(10, 0, 0, 0, 31), T6(32, 1, 13, 184, 0, 127)>>, lens |-> {32, 128}],
    [cidrs |-> <<[ip |-> v4InV6Prefix \o <<10, 0, 0, 0>>, n |-> 127]>>, lens |-> {127, 128}],
    [cidrs |-> <<T6(0, 0, 0, 0, 0, 0), [ip |-> v4InV6Prefix \o <<0, 0, 0, 0>>, n |-> 96]>>,
     lens |-> {0, 96}] }

\* prefix lengths requested from the pool whose CIDR list is cidrs
SearchLens(cidrs) == UNION {c.lens : c \in {d \in SearchCases : d.cidrs = cidrs}}

\* what the observer keeps of a finished allocation request: its arguments, the
\* registry it ran against, its result, and the length of the run of successful
\* requests of one prefix length, started on an empty registry, that it extends
Observe(poolName, prefixLength, out) ==
  [op |-> "allocate", poolName |-> poolName, prefixLength |-> prefixLength,
   before |-> allocations, err |-> out.err,
   allocatedIP |-> out.allocatedIP, allocationID |-> out.allocationID,
   runOK |-> IF obs.op = "none" THEN allocations = EmptyMap
             ELSE obs.runOK /\ obs.prefixLength = prefixLength,
   runN |-> (IF obs.op = "none" THEN 0 ELSE obs.runN)
            + (IF out.err = "" THEN 1 ELSE 0)]

\* The requests drawn are those whose search is short.  PastScan: the search
\* of a request of prefixLength in the pool of cidrs would pass more than
\* MaxScan blocks that one registered allocation covers: the range has more
\* than MaxScan blocks of the size, the block size 1 << hostBits is
\* positive, and the allocation is more than MaxScan times the size
PastScan(cidrs, prefixLength) ==
  \E k \in DOMAIN cidrs, id \in DOMAIN allocations :
    /\ prefixLength >= cidrs[k].n
    /\ I64Above(numBlocks(prefixLength - cidrs[k].n), MaxScan)
    /\ I64Positive(I64Shl1(8 * Len(cidrs[k].ip) - prefixLength))
    /\ prefixLength > allocations[id].AllocatedIP.n
    /\ \/ prefixLength - allocations[id].AllocatedIP.n >= 31
       \/ 2 ^ (prefixLength - allocations[id].AllocatedIP.n) > MaxScan

\* the pool is registered, so the resources have their provider
InitSearch ==
  /\ \E c \in SearchCases : pools = [n \in {"p"} |-> [Name |-> "p", CIDRs |-> c.cidrs]]
  /\ allocations = EmptyMap
  /\ mu = "free"
  /\ pc = [w \in Workers |-> Idle]
  /\ tfAllocs = EmptyBag
  /\ obs = NoObs
  /\ provider = "IpamProvider"
  /\ StoreUnused

NextSearch ==
  \/ \E l \in SearchLens(pools["p"].CIDRs) :
       /\ Room(MaxSearchAllocs) /\ ~PastScan(pools["p"].CIDRs, l)
       /\ AllocCreate("w1", "p", l) /\ UNCHANGED <<obs, provider, storeVars>>
  \/ allocateLock("w1") /\ UNCHANGED <<obs, provider, storeVars>>
  \/ \E order \in MapOrders(allocations) : allocateCollect("w1", order) /\ UNCHANGED <<obs, provider, storeVars>>
  \/ allocateSearch("w1")
       /\ obs' = Observe(pc["w1"].poolName, pc["w1"].prefixLength, searchOutcome("w1"))
       /\ UNCHANGED <<provider, storeVars>>
  \/ AllocCreateSet("w1") /\ UNCHANGED <<obs, provider, storeVars>>
  \/ \E data \in BagToSet(tfAllocs) : AllocDelete("w1", data) /\ obs' = NoObs /\ UNCHANGED <<provider, storeVars>>
  \/ AllocDeleteReturn("w1") /\ UNCHANGED <<obs, provider, storeVars>>

SpecSearch == InitSearch /\ [][NextSearch]_vars

----------------------------------------------------------------------------
(* The storage package: Factory and the backends built on one object.  The  *)
(* S3 and the Azure backend run the same statements on their data; line     *)
(* numbers are those of aws_s3.go unless another file is named.             *)

\* how a request to the backend, and the creation of its client, may fare
GetOutcomes == {"ok", "refused", "cut"}
PutOutcomes == {"ok", "refused"}
ClientOutcomes == {"ok", "refused"}

\* ErrNotFound (interface.go 9)
ErrNotFound == "not found"

\* the default object key and blob name (aws_s3.go 50, azure_blob.go 41)
DefaultObjectKey == "ipam-storage.json"

\* json.MarshalIndent of the data (line 150): the document has the fields the
\* json tags name (interface.go 13-21), and holds the CIDR texts themselves
MarshalIndent(data) ==
  [kind |-> "document",
   pools |-> [n \in DOMAIN data.Pools |->
                [name |-> data.Pools[n].Name, cidrs |-> data.Pools[n].CIDRs]],
   allocations |-> [id \in DOMAIN data.Allocations |->
                [id |-> data.Allocations[id].ID,
                 pool_name |-> data.Allocations[id].PoolName,
                 allocated_cidr |-> data.Allocations[id].AllocatedCIDR,
                 prefix_length |-> data.Allocations[id].PrefixLength]]]

\* json.Unmarshal of a document into the data (line 146)
Unmarshal(doc) ==
  [Pools |-> [n \in DOMAIN doc.pools |->
                [Name |-> doc.pools[n].name, CIDRs |-> doc.pools[n].cidrs]],
   Allocations |-> [id \in DOMAIN doc.allocations |->
                [ID |-> doc.allocations[id].id,
                 PoolName |-> doc.allocations[id].pool_name,
                 AllocatedCIDR |-> doc.allocations[id].allocated_cidr,
                 PrefixLength |-> doc.allocations[id].prefix_length]]]

\* the data of a new instance (lines 111-114)
EmptyData == [Pools |-> EmptyMap, Allocations |-> EmptyMap]

\* the error a backend's load returns when there is no object: types.NoSuchKey
\* (line 119), bloberror.BlobNotFound (azure_blob.go 62); the file backend's
\* is not in the source
NotExist(backend) ==
  IF backend = "aws_s3" THEN "NoSuchKey"
  ELSE IF backend = "azure_blob" THEN "BlobNotFound"
  ELSE "file does not exist"

\* load (lines 128-147, azure_blob.go 71-87) of a backend against the object
\* obj, the request faring as get ("ok", "refused": the request fails, "cut":
\* the body cannot be read): one GetObject or DownloadStream, ReadAll, Unmarshal
load(backend, obj, get) ==
  IF get = "refused" THEN [err |-> "request failed", data |-> EmptyData]
  ELSE IF obj.kind = "absent" THEN [err |-> NotExist(backend), data |-> EmptyData]
  ELSE IF get = "cut"
  THEN [err |-> IF backend = "azure_blob" THEN "failed to read blob data"
                ELSE "failed to read s3 object data",
        data |-> EmptyData]
  ELSE IF obj.kind # "document" THEN [err |-> "invalid character", data |-> EmptyData]
  ELSE [err |-> "", data |-> Unmarshal(obj)]

\* what a constructor returns before its load: no instance and an error
NoInstance(config, err) ==
  [state |-> "failed", config |-> config, backend |-> "", key |-> "", err |-> err,
   loads |-> 0, loadErr |-> "", data |-> EmptyData]

\* what it returns after its load returned l: an instance, or no instance and
\* an error
Instance(config, backend, key, l) ==
  [state |-> "ready", config |-> config, backend |-> backend, key |-> key,
   err |-> "", loads |-> 1, loadErr |-> l.err, data |-> l.data]

\* (line 121, azure_blob.go 64)
LoadFailed(config, backend, l) ==
  [state |-> "failed", config |-> config, backend |-> "", key |-> "",
   err |-> IF backend = "azure_blob" THEN "failed to load storage blob"
           ELSE "failed to load storage object",
   loads |-> 1, loadErr |-> l.err, data |-> EmptyData]

\* constructors that go on with an empty dataset whatever the load returned
loadedLenient(config, backend, key, l) ==
  Instance(config, backend, key, [err |-> l.err, data |-> EmptyData])

\* the constructors from their load on (lines 117-125, azure_blob.go 59-68):
\* an absent object is no error, any other failure of the load is
loaded(config, backend, key, l) ==
  IF l.err = "" \/ l.err = NotExist(backend)
  THEN Instance(config, backend, key, l)
  ELSE LoadFailed(config, backend, l)

\* NewS3Storage (lines 42-126); client is how LoadDefaultConfig fares
NewS3Storage(config, client, obj, get) ==
  IF config.S3Region = "" THEN NoInstance(config, "aws region is required")
  ELSE IF config.S3BucketName = ""
  THEN NoInstance(config, "s3 bucket name is required")
  ELSE IF config.S3AccessKeyID # "" /\ config.S3SecretAccessKey = ""
  THEN NoInstance(config, "aws secret access key is required when access key id is provided")
  ELSE IF config.S3AccessKeyID = "" /\ config.S3SecretAccessKey # ""
  THEN NoInstance(config, "aws access key id is required when secret access key is provided")
  ELSE IF client # "ok" THEN NoInstance(config, "failed to load aws config")
  ELSE loaded(config, "aws_s3",
              IF config.S3ObjectKey = "" THEN DefaultObjectKey ELSE config.S3ObjectKey,
              load("aws_s3", obj, get))

\* NewAzureBlobStorage (azure_blob.go 33-69); client is how
\* NewClientFromConnectionString fares
NewAzureBlobStorage(config, client, obj, get) ==
  IF config.AzureConnectionString = ""
  THEN NoInstance(config, "azure connection string is required")
  ELSE IF config.AzureContainerName = ""
  THEN NoInstance(config, "azure container name is required")
  ELSE IF client # "ok" THEN NoInstance(config, "failed to create azure blob client")
  ELSE loaded(config, "azure_blob",
              IF config.AzureBlobName = "" THEN DefaultObjectKey ELSE config.AzureBlobName,
              load("azure_blob", obj, get))

\* NewFileStorage: one read of the file at FilePath; a file that does not
\* exist is an empty dataset, any other failure fails the construction
NewFileStorage(config, obj, get) ==
  loaded(config, "file", config.FilePath, load("file", obj, get))

\* a Factory that takes every type it does not know for "file"
constructAnyType(config, client, obj, get) ==
  IF config.Type = "azure_blob" THEN NewAzureBlobStorage(config, client, obj, get)
  ELSE IF config.Type = "aws_s3" THEN NewS3Storage(config, client, obj, get)
  ELSE NewFileStorage(config, obj, get)

\* Factory's choice of the constructor (interface.go 61-73)
construct(config, client, obj, get) ==
  IF config.Type = "file" \/ config.Type = "" THEN NewFileStorage(config, obj, get)
  ELSE IF config.Type = "azure_blob" THEN NewAzureBlobStorage(config, client, obj, get)
  ELSE IF config.Type = "aws_s3" THEN NewS3Storage(config, client, obj, get)
  ELSE NoInstance(config, "unknown storage type")

\* a configuration record (interface.go 41-59)
Config(type, path, conn, container, region, bucket, keyID, secret) ==
  [Type |-> type, FilePath |-> path,
   AzureConnectionString |-> conn, AzureContainerName |-> container,
   AzureBlobName |-> "",
   S3Region |-> region, S3BucketName |-> bucket, S3ObjectKey |-> "",
   S3AccessKeyID |-> keyID, S3SecretAccessKey |-> secret]

\* the configuration the store specification builds its instances from
S3Config == Config("aws_s3", "", "", "", "r", "b", "", "")

\* the configurations of the construction specification
Configs ==
  { Config("", "f", "", "", "", "", "", ""),
    Config("file", "f", "", "", "", "", "", ""),
    Config("gcs", "f", "c", "k", "r", "b", "", ""),
    Config("azure_blob", "", "c", "k", "", "", "", ""),
    Config("azure_blob", "", "", "k", "", "", "", ""),
    Config("azure_blob", "", "c", "", "", "", "", ""),
    S3Config,
    Config("aws_s3", "", "", "", "r", "b", "i", "s"),
    Config("aws_s3", "", "", "", "", "b", "", ""),
    Config("aws_s3", "", "", "", "r", "", "", ""),
    Config("aws_s3", "", "", "", "r", "b", "i", ""),
    Config("aws_s3", "", "", "", "r", "b", "", "s") }

\* Factory (interface.go 61-73) builds instance i; the other instance's object
\* is the same one
Factory(i, config, client, get) ==
  /\ store[i] = NotBuilt
  /\ store' = [store EXCEPT ![i] = construct(config, client, remote, get)]
  /\ UNCHANGED <<remote, smu, call, settled, calls>>

----------------------------------------------------------------------------
(* The construction specification: Factory called with every configuration  *)
(* of Configs, on an object that is absent, a document, or not a document.  *)

\* an object holding a dataset: pool "p" with one range, no allocation
Seeded ==
  MarshalIndent([Pools |-> [n \in {"p"} |->
                              [Name |-> "p", CIDRs |-> <<T4(10, 0, 0, 0, 31)>>]],
                 Allocations |-> EmptyMap])

\* an object that is not a JSON document
Garbled == [kind |-> "garbled"]


InitFactory ==
  /\ pools = EmptyMap
  /\ allocations = EmptyMap
  /\ mu = "free"
  /\ pc = [w \in Workers |-> Idle]
  /\ tfAllocs = EmptyBag
  /\ obs = NoObs
  /\ provider = NilProvider
  /\ remote \in {NoObject, Garbled, Seeded}
  /\ store = [i \in Instances |-> NotBuilt]
  /\ smu = [i \in Instances |-> Unlocked]
  /\ call = [c \in Callers |-> NoCall]
  /\ settled = [i \in Instances |-> NoneSettled]
  /\ calls = 0

NextFactory ==
  \E i \in Instances, config \in Configs, client \in ClientOutcomes, get \in GetOutcomes :
    Factory(i, config, client, get)
    /\ UNCHANGED <<pools, allocations, mu, pc, tfAllocs, obs, provider>>

SpecFactory == InitFactory /\ [][NextFactory]_vars

\* a call of operation op on instance i, waiting for the instance's mu.  put
\* tells how far the call's PutObject request is ("": none is out, "sent": it
\* is out, "ok" or "refused": the backend has served it so and save has not
\* gone on yet), body is the body of a request that is out
Request(op, i, key, arg) ==
  [op |-> op, at |-> "waiting", inst |-> i, key |-> key, arg |-> arg,
   err |-> "", pools |-> <<>>, allocs |-> <<>>, puts |-> 0,
   put |-> "", body |-> NoObject]

\* the call has returned err, the pools and the allocations, after puts
\* PutObject requests
Return(req, err, ps, as, puts) ==
  [op |-> req.op, at |-> "returned", inst |-> req.inst, key |-> req.key,
   arg |-> req.arg, err |-> err, pools |-> ps, allocs |-> as, puts |-> puts,
   put |-> "", body |-> NoObject]

\* a Pool value in a caller's hands; array tells whether its CIDRs slice still
\* has the backing array of the instance's entry of that name ("entry"), or
\* one of the caller's own ("own")
Held(pool, array) == [Name |-> pool.Name, CIDRs |-> pool.CIDRs, array |-> array]

\* poolCopy := *pool (lines 177, 188, 199): the struct is copied, and the
\* copy's CIDRs slice has the backing array of the original's
poolCopy(pool) == [Name |-> pool.Name, CIDRs |-> pool.CIDRs]

\* allocCopy := *allocation (lines 227, 238, 251, 263)
allocCopy(allocation) ==
  [ID |-> allocation.ID, PoolName |-> allocation.PoolName,
   AllocatedCIDR |-> allocation.AllocatedCIDR,
   PrefixLength |-> allocation.PrefixLength]

\* the callers' values after instance i's entry for pool name was replaced or
\* deleted: those that had its backing array keep the array, the entry does not
Detach(held, i, name) ==
  [c \in DOMAIN held |->
     [held[c] EXCEPT !.pools =
        [k \in DOMAIN held[c].pools |->
           IF held[c].inst = i /\ held[c].pools[k].Name = name
           THEN Held(held[c].pools[k], "own")
           ELSE held[c].pools[k]]]]

\* the callers' values after element 1 of the backing array of instance i's
\* entry for pool name was set to text
Scribbled(held, i, name, text) ==
  [c \in DOMAIN held |->
     [held[c] EXCEPT !.pools =
        [k \in DOMAIN held[c].pools |->
           IF held[c].inst = i /\ held[c].pools[k].Name = name
              /\ held[c].pools[k].array = "entry"
           THEN [held[c].pools[k] EXCEPT !.CIDRs[1] = text]
           ELSE held[c].pools[k]]]]

\* mu.RLock() (lines 168, 182, 218, 232, 245): granted while no writer holds mu
StoreRLock(c) ==
  /\ call[c].at = "waiting"
  /\ call[c].op \in {"GetPool", "ListPools", "GetAllocation", "ListAllocations",
                     "ListAllocationsByPool"}
  /\ smu[call[c].inst].writer = ""
  /\ smu' = [smu EXCEPT ![call[c].inst].readers = @ \cup {c}]
  /\ call' = [call EXCEPT ![c].at = "inside"]
  /\ UNCHANGED <<remote, store, settled, calls>>

\* a write lock granted whoever holds mu
StoreLockAtOnce(c) ==
  /\ call[c].at = "waiting"
  /\ call[c].op \in {"SavePool", "DeletePool", "SaveAllocation", "DeleteAllocation"}
  /\ smu' = [smu EXCEPT ![call[c].inst].writer = c]
  /\ call' = [call EXCEPT ![c].at = "inside"]
  /\ UNCHANGED <<remote, store, settled, calls>>

\* mu.Lock() (lines 195, 206, 259, 270): granted while nobody holds mu
StoreLock(c) ==
  /\ call[c].at = "waiting"
  /\ call[c].op \in {"SavePool", "DeletePool", "SaveAllocation", "DeleteAllocation"}
  /\ smu[call[c].inst] = Unlocked
  /\ smu' = [smu EXCEPT ![call[c].inst].writer = c]
  /\ call' = [call EXCEPT ![c].at = "inside"]
  /\ UNCHANGED <<remote, store, settled, calls>>

\* a read that returns without releasing mu
StoreRUnlockNever(c) == smu' = smu

\* defer mu.RUnlock(), defer mu.Unlock()
StoreRUnlock(c) == smu' = [smu EXCEPT ![call[c].inst].readers = @ \ {c}]

StoreUnlock(c) == smu' = [smu EXCEPT ![call[c].inst].writer = ""]

\* what save returns (lines 159-164, azure_blob.go 97-101) after the backend
\* served its request as put
saveErr(backend, put) ==
  IF put = "ok" THEN ""
  ELSE IF backend = "azure_blob" THEN "failed to upload blob"
  ELSE "failed to upload s3 object"

\* the record of the last successful mutation of a key: a failed or a
\* successful later one, or a write into the entry's backing array, ends it
Settle(m, key, put, present, value) ==
  IF put = "ok" THEN MapPut(m, key, [present |-> present, value |-> value])
  ELSE MapDelete(m, key)

\* a lookup that finds no key
existsNever(m, key) == FALSE

\* _, exists := m[key] (lines 171, 209, 221, 273)
exists(m, key) == key \in DOMAIN m

\* GetPool (lines 167-179)
GetPool(c) ==
  /\ call[c].op = "GetPool" /\ call[c].at = "inside"
  /\ call' = [call EXCEPT ![c] =
       IF exists(store[call[c].inst].data.Pools, call[c].key)
       THEN Return(call[c], "",
              <<Held(poolCopy(store[call[c].inst].data.Pools[call[c].key]), "entry")>>,
              <<>>, 0)
       ELSE Return(call[c], ErrNotFound, <<>>, <<>>, 0)]
  /\ StoreRUnlock(c)
  /\ UNCHANGED <<remote, store, settled, calls>>

\* ListPools (lines 181-192); order is the order the range visits the keys in
ListPools(c, order) ==
  /\ call[c].op = "ListPools" /\ call[c].at = "inside"
  /\ call' = [call EXCEPT ![c] =
       Return(call[c], "",
              [k \in 1..Len(order) |->
                 Held(poolCopy(store[call[c].inst].data.Pools[order[k]]), "entry")],
              <<>>, 0)]
  /\ StoreRUnlock(c)
  /\ UNCHANGED <<remote, store, settled, calls>>

\* a save that keeps the pool's name and drops its CIDRs
putPoolNameOnly(data, pool) ==
  [data EXCEPT !.Pools = MapPut(data.Pools, pool.Name, [Name |-> pool.Name, CIDRs |-> <<>>])]

\* the data after s3s.data.Pools[pool.Name] = &poolCopy (lines 199-200)
putPool(data, pool) ==
  [data EXCEPT !.Pools = MapPut(data.Pools, pool.Name, poolCopy(pool))]

\* SavePool (lines 194-203) inside the lock, as far as save's PutObject (line
\* 155): the entry is written, the data is marshalled (line 150) and the
\* request is out
SavePool(c) ==
  /\ call[c].op = "SavePool" /\ call[c].at = "inside" /\ call[c].put = ""
  /\ store' = [store EXCEPT ![call[c].inst].data = putPool(@, call[c].arg)]
  /\ call' = [Detach(call, call[c].inst, call[c].arg.Name) EXCEPT ![c] =
       [call[c] EXCEPT !.put = "sent",
                       !.body = MarshalIndent(putPool(store[call[c].inst].data,
                                                      call[c].arg))]]
  /\ UNCHANGED <<remote, smu, settled, calls>>

\* a delete that takes the pool's allocations with it
removePoolCascade(data, name) ==
  [Pools |-> MapDelete(data.Pools, name),
   Allocations |-> [id \in {a \in DOMAIN data.Allocations :
                              data.Allocations[a].PoolName # name} |->
                      data.Allocations[id]]]

\* the data after delete(s3s.data.Pools, name) (line 213)
removePool(data, name) == [data EXCEPT !.Pools = MapDelete(data.Pools, name)]

\* DeletePool (lines 205-215) inside the lock: without the entry it returns
\* ErrNotFound; with it, as far as save's PutObject (line 155)
DeletePool(c) ==
  /\ call[c].op = "DeletePool" /\ call[c].at = "inside" /\ call[c].put = ""
  /\ IF ~exists(store[call[c].inst].data.Pools, call[c].key)
     THEN /\ call' = [call EXCEPT ![c] = Return(call[c], ErrNotFound, <<>>, <<>>, 0)]
          /\ StoreUnlock(c)
          /\ UNCHANGED store
     ELSE /\ store' = [store EXCEPT ![call[c].inst].data = removePool(@, call[c].key)]
          /\ call' = [Detach(call, call[c].inst, call[c].key) EXCEPT ![c] =
               [call[c] EXCEPT !.put = "sent",
                               !.body = MarshalIndent(removePool(store[call[c].inst].data,
                                                                 call[c].key))]]
          /\ UNCHANGED smu
  /\ UNCHANGED <<remote, settled, calls>>

\* GetAllocation (lines 217-229)
GetAllocation(c) ==
  /\ call[c].op = "GetAllocation" /\ call[c].at = "inside"
  /\ call' = [call EXCEPT ![c] =
       IF exists(store[call[c].inst].data.Allocations, call[c].key)
       THEN Return(call[c], "", <<>>,
              <<allocCopy(store[call[c].inst].data.Allocations[call[c].key])>>, 0)
       ELSE Return(call[c], ErrNotFound, <<>>, <<>>, 0)]
  /\ StoreRUnlock(c)
  /\ UNCHANGED <<remote, store, settled, calls>>

\* ListAllocations (lines 231-242); order is the order the range visits the
\* keys in
ListAllocations(c, order) ==
  /\ call[c].op = "ListAllocations" /\ call[c].at = "inside"
  /\ call' = [call EXCEPT ![c] =
       Return(call[c], "", <<>>,
              [k \in 1..Len(order) |->
                 allocCopy(store[call[c].inst].data.Allocations[order[k]])], 0)]
  /\ StoreRUnlock(c)
  /\ UNCHANGED <<remote, store, settled, calls>>

\* the keys of the allocations of pool poolName (line 250)
ofPool(data, poolName) ==
  {id \in DOMAIN data.Allocations : data.Allocations[id].PoolName = poolName}

\* ListAllocationsByPool (lines 244-256); order is the order the range visits
\* the pool's keys in
ListAllocationsByPool(c, order) ==
  /\ call[c].op = "ListAllocationsByPool" /\ call[c].at = "inside"
  /\ call' = [call EXCEPT ![c] =
       Return(call[c], "", <<>>,
              [k \in 1..Len(order) |->
                 allocCopy(store[call[c].inst].data.Allocations[order[k]])], 0)]
  /\ StoreRUnlock(c)
  /\ UNCHANGED <<remote, store, settled, calls>>

\* the data after s3s.data.Allocations[allocation.ID] = &allocCopy (263-264)
putAllocation(data, allocation) ==
  [data EXCEPT !.Allocations = MapPut(data.Allocations, allocation.ID,
                                      allocCopy(allocation))]

\* SaveAllocation (lines 258-267) inside the lock, as far as save's PutObject
SaveAllocation(c) ==
  /\ call[c].op = "SaveAllocation" /\ call[c].at = "inside" /\ call[c].put = ""
  /\ store' = [store EXCEPT ![call[c].inst].data = putAllocation(@, call[c].arg)]
  /\ call' = [call EXCEPT ![c] =
       [call[c] EXCEPT !.put = "sent",
                       !.body = MarshalIndent(putAllocation(store[call[c].inst].data,
                                                            call[c].arg))]]
  /\ UNCHANGED <<remote, smu, settled, calls>>

\* a delete that leaves the map as it is
removeNothing(data, id) == data

\* the data after delete(s3s.data.Allocations, id) (line 277)
removeAllocation(data, id) ==
  [data EXCEPT !.Allocations = MapDelete(data.Allocations, id)]

\* DeleteAllocation (lines 269-279) inside the lock: without the entry it
\* returns ErrNotFound; with it, as far as save's PutObject
DeleteAllocation(c) ==
  /\ call[c].op = "DeleteAllocation" /\ call[c].at = "inside" /\ call[c].put = ""
  /\ IF ~exists(store[call[c].inst].data.Allocations, call[c].key)
     THEN /\ call' = [call EXCEPT ![c] = Return(call[c], ErrNotFound, <<>>, <<>>, 0)]
          /\ StoreUnlock(c)
          /\ UNCHANGED store
     ELSE /\ store' = [store EXCEPT ![call[c].inst].data = removeAllocation(@, call[c].key)]
          /\ call' = [call EXCEPT ![c] =
               [call[c] EXCEPT !.put = "sent",
                               !.body = MarshalIndent(
                                          removeAllocation(store[call[c].inst].data,
                                                           call[c].key))]]
          /\ UNCHANGED smu
  /\ UNCHANGED <<remote, settled, calls>>

\* a backend that keeps the entries of the object which the body does not
\* have
PutObjectMerging(c, put) ==
  /\ call[c].at = "inside" /\ call[c].put = "sent"
  /\ remote' =
       IF put # "ok" THEN remote
       ELSE IF remote.kind # "document" THEN call[c].body
       ELSE [kind |-> "document",
             pools |-> [n \in DOMAIN call[c].body.pools \cup DOMAIN remote.pools |->
                          IF n \in DOMAIN call[c].body.pools THEN call[c].body.pools[n]
                          ELSE remote.pools[n]],
             allocations |->
               [id \in DOMAIN call[c].body.allocations \cup DOMAIN remote.allocations |->
                  IF id \in DOMAIN call[c].body.allocations
                  THEN call[c].body.allocations[id]
                  ELSE remote.allocations[id]]]
  /\ call' = [call EXCEPT ![c].put = put]
  /\ UNCHANGED <<store, smu, settled, calls>>

\* the backend serves the PutObject request of c's save (line 155;
\* UploadStream, azure_blob.go 95), faring as put: it replaces the object by
\* the request's body, or refuses and leaves it.  save is still waiting for
\* the answer, inside the lock
PutObject(c, put) ==
  /\ call[c].at = "inside" /\ call[c].put = "sent"
  /\ remote' = IF put = "ok" THEN call[c].body ELSE remote
  /\ call' = [call EXCEPT ![c].put = put]
  /\ UNCHANGED <<store, smu, settled, calls>>

\* save has the answer and returns (lines 156-164); the mutating call returns
\* what save returned (lines 202, 214, 266, 278) and its deferred Unlock runs
save(c) ==
  /\ call[c].at = "inside" /\ call[c].put \in PutOutcomes
  /\ call' = [call EXCEPT ![c] =
       Return(call[c], saveErr(store[call[c].inst].backend, call[c].put),
              IF call[c].op = "SavePool" THEN <<Held(call[c].arg, "entry")>> ELSE <<>>,
              <<>>, 1)]
  /\ settled' = [settled EXCEPT ![call[c].inst] =
       IF call[c].op \in {"SavePool", "DeletePool"}
       THEN [@ EXCEPT !.Pools = Settle(@, call[c].key, call[c].put,
                                       call[c].op = "SavePool", call[c].arg)]
       ELSE [@ EXCEPT !.Allocations = Settle(@, call[c].key, call[c].put,
                                             call[c].op = "SaveAllocation", call[c].arg)]]
  /\ StoreUnlock(c)
  /\ UNCHANGED <<remote, store, calls>>

\* the text a caller writes into a CIDRs slice it holds
Scribble == T4(192, 168, 0, 0, 16)

\* a caller sets element 0 of the CIDRs slice of the k-th Pool value its last
\* call left it with; the slice's backing array is the instance's entry's
\* when poolCopy gave it that array and the entry is still the same
Mutate(c, k) ==
  /\ call[c].at = "returned"
  /\ k \in DOMAIN call[c].pools
  /\ Len(call[c].pools[k].CIDRs) > 0
  /\ call[c].pools[k].CIDRs[1] # Scribble
  /\ IF call[c].pools[k].array = "entry"
     THEN /\ store' = [store EXCEPT
                ![call[c].inst].data.Pools[call[c].pools[k].Name].CIDRs[1] = Scribble]
          /\ call' = Scribbled(call, call[c].inst, call[c].pools[k].Name, Scribble)
          /\ settled' = [settled EXCEPT ![call[c].inst].Pools =
                MapDelete(@, call[c].pools[k].Name)]
     ELSE /\ call' = [call EXCEPT ![c].pools[k].CIDRs[1] = Scribble]
          /\ UNCHANGED <<store, settled>>
  /\ UNCHANGED <<remote, smu, calls>>

----------------------------------------------------------------------------
(* The store specification: instance "s1" and two callers.  A mutating call *)
(* takes three steps inside the lock: the map write with the write request, *)
(* the backend serving the request, and the return.                         *)

\* CIDR texts of the stored pools and allocations
Low == T4(10, 0, 0, 0, 31)
High == T4(10, 0, 0, 2, 31)

\* most store calls made in one behaviour of the store specification
MaxCalls == 4

\* the pool names and the Pool values given to SavePool
StorePoolNames == {"p"}
StorePools == { [Name |-> "p", CIDRs |-> <<Low>>],
                [Name |-> "p", CIDRs |-> <<High, Low>>] }

\* the allocation ids and the Allocation values given to SaveAllocation
StoreIDs == {"a", "b"}
StoreAllocations ==
  { [ID |-> "a", PoolName |-> "p", AllocatedCIDR |-> Low, PrefixLength |-> 31],
    [ID |-> "a", PoolName |-> "q", AllocatedCIDR |-> High, PrefixLength |-> 31] }

\* the calls a caller makes on instance i
Requests(i) ==
  {Request("GetPool", i, n, <<>>) : n \in StorePoolNames}
  \cup {Request("ListPools", i, "", <<>>)}
  \cup {Request("SavePool", i, pool.Name, pool) : pool \in StorePools}
  \cup {Request("DeletePool", i, n, <<>>) : n \in StorePoolNames}
  \cup {Request("GetAllocation", i, a.ID, <<>>) : a \in StoreAllocations}
  \cup {Request("ListAllocations", i, "", <<>>)}
  \cup {Request("ListAllocationsByPool", i, n, <<>>) : n \in StorePoolNames}
  \cup {Request("SaveAllocation", i, a.ID, a) : a \in StoreAllocations}
  \cup {Request("DeleteAllocation", i, a.ID, <<>>) : a \in StoreAllocations}

\* a caller that is in no call calls an operation of an instance Factory
\* returned
StoreCall(c, req) ==
  /\ call[c].at \in {"idle", "returned"}
  /\ store[req.inst].state = "ready"
  /\ call' = [call EXCEPT ![c] = req]
  /\ calls' = calls + 1
  /\ UNCHANGED <<remote, store, smu, settled>>

adapterVars == <<pools, allocations, mu, pc, tfAllocs, obs, provider>>

InitStore ==
  /\ pools = EmptyMap
  /\ allocations = EmptyMap
  /\ mu = "free"
  /\ pc = [w \in Workers |-> Idle]
  /\ tfAllocs = EmptyBag
  /\ obs = NoObs
  /\ provider = NilProvider
  /\ StoreUnused

NextStore ==
  \/ \E get \in GetOutcomes :
       Factory("s1", S3Config, "ok", get) /\ UNCHANGED adapterVars
  \/ \E c \in Callers :
       \/ \E req \in Requests("s1") :
            calls < MaxCalls /\ StoreCall(c, req) /\ UNCHANGED adapterVars
       \/ StoreRLock(c) /\ UNCHANGED adapterVars
       \/ StoreLock(c) /\ UNCHANGED adapterVars
       \/ GetPool(c) /\ UNCHANGED adapterVars
       \/ /\ call[c].at = "inside"
          /\ \E order \in Orders(DOMAIN store[call[c].inst].data.Pools) :
                ListPools(c, order) /\ UNCHANGED adapterVars
       \/ SavePool(c) /\ UNCHANGED adapterVars
       \/ DeletePool(c) /\ UNCHANGED adapterVars
       \/ GetAllocation(c) /\ UNCHANGED adapterVars
       \/ /\ call[c].at = "inside"
          /\ \E order \in Orders(DOMAIN store[call[c].inst].data.Allocations) :
                ListAllocations(c, order) /\ UNCHANGED adapterVars
       \/ /\ call[c].at = "inside"
          /\ \E order \in Orders(ofPool(store[call[c].inst].data, call[c].key)) :
                ListAllocationsByPool(c, order) /\ UNCHANGED adapterVars
       \/ SaveAllocation(c) /\ UNCHANGED adapterVars
       \/ DeleteAllocation(c) /\ UNCHANGED adapterVars
       \/ \E put \in PutOutcomes : PutObject(c, put) /\ UNCHANGED adapterVars
       \/ save(c) /\ UNCHANGED adapterVars
       \/ \E k \in 1..2 : Mutate(c, k) /\ UNCHANGED adapterVars

SpecStore == InitStore /\ [][NextStore]_vars

----------------------------------------------------------------------------
(* An allocation request served from the store: read the pool, list the     *)
(* pool's allocations, search, save the new allocation; three store calls.  *)

\* most allocation requests made in one behaviour of the allocation
\* specification
MaxCreates == 2

\* prefix lengths and pool names of the allocation requests
CreatePrefixLens == {31, 32}
CreatePoolNames == {"p", "q"}

\* a worker asks for a block of pool poolName under allocation id: its first
\* store call, getPool
Create(w, id, poolName, prefixLength) ==
  /\ pc[w] = Idle
  /\ call[w].at \in {"idle", "returned"}
  /\ store["s1"].state = "ready"
  /\ pc' = [pc EXCEPT ![w] = [op |-> "getPool", id |-> id, poolName |-> poolName,
                               prefixLength |-> prefixLength]]
  /\ call' = [call EXCEPT ![w] = Request("GetPool", "s1", poolName, <<>>)]
  /\ calls' = calls + 1
  /\ UNCHANGED <<remote, store, smu, settled>>

\* getPool has returned: without the pool the request fails, with it the
\* second store call follows, listAllocationsByPool
CreateList(w) ==
  /\ pc[w].op = "getPool"
  /\ call[w].at = "returned"
  /\ IF call[w].err # ""
     THEN /\ pc' = [pc EXCEPT ![w] = Idle]
          /\ UNCHANGED call
     ELSE /\ pc' = [pc EXCEPT ![w] =
                [op |-> "list", id |-> pc[w].id, poolName |-> pc[w].poolName,
                 prefixLength |-> pc[w].prefixLength,
                 pool |-> poolCopy(call[w].pools[1])]]
          /\ call' = [call EXCEPT ![w] =
                Request("ListAllocationsByPool", "s1", pc[w].poolName, <<>>)]
  /\ UNCHANGED <<remote, store, smu, settled, calls>>

RECURSIVE parseAllocated(_)
\* the parsed CIDRs of the listed allocations, those that parse
parseAllocated(allocs) ==
  IF allocs = <<>> THEN <<>>
  ELSE (IF ParseFails(Head(allocs).AllocatedCIDR) THEN <<>>
        ELSE <<ParseCIDR(Head(allocs).AllocatedCIDR)>>)
       \o parseAllocated(Tail(allocs))

\* the Allocation saved for a found block
newAllocation(id, poolName, prefixLength, candidateCIDR) ==
  [ID |-> id, PoolName |-> poolName, AllocatedCIDR |-> NetString(candidateCIDR),
   PrefixLength |-> prefixLength]

\* the request after its search found candidateCIDR: exhausted, or the third
\* store call, saveAllocation
saveFound(w, candidateCIDR) ==
  IF candidateCIDR = NilNet
  THEN /\ pc' = [pc EXCEPT ![w] = Idle]
       /\ UNCHANGED call
  ELSE /\ pc' = [pc EXCEPT ![w] = [op |-> "save", id |-> pc[w].id]]
       /\ call' = [call EXCEPT ![w] =
             Request("SaveAllocation", "s1", pc[w].id,
                     newAllocation(pc[w].id, pc[w].poolName, pc[w].prefixLength,
                                   candidateCIDR))]

\* listAllocationsByPool has returned: search the pool's ranges for a block
\* free of the listed allocations
CreateSave(w) ==
  /\ pc[w].op = "list"
  /\ call[w].at = "returned"
  /\ saveFound(w, searchRanges(pc[w].pool.CIDRs, pc[w].prefixLength,
                               parseAllocated(call[w].allocs)))
  /\ UNCHANGED <<remote, store, smu, settled, calls>>

\* saveAllocation has returned: the request is over
CreateDone(w) ==
  /\ pc[w].op = "save"
  /\ call[w].at = "returned"
  /\ pc' = [pc EXCEPT ![w] = Idle]
  /\ UNCHANGED <<remote, store, smu, call, settled, calls>>

\* the adapter's variables the store does not use
idleVars == <<pools, allocations, mu, tfAllocs, obs, provider>>

InitAllocate ==
  /\ pools = EmptyMap
  /\ allocations = EmptyMap
  /\ mu = "free"
  /\ pc = [w \in Workers |-> Idle]
  /\ tfAllocs = EmptyBag
  /\ obs = NoObs
  /\ provider = "IpamProvider"
  /\ remote = Seeded
  /\ store = [i \in Instances |-> NotBuilt]
  /\ smu = [i \in Instances |-> Unlocked]
  /\ call = [c \in Callers |-> NoCall]
  /\ settled = [i \in Instances |-> NoneSettled]
  /\ calls = 0

NextAllocate ==
  \/ Factory("s1", S3Config, "ok", "ok") /\ UNCHANGED adapterVars
  \/ \E w \in Workers :
       \/ \E id \in StoreIDs, n \in CreatePoolNames, l \in CreatePrefixLens :
            calls < MaxCreates /\ Create(w, id, n, l) /\ UNCHANGED idleVars
       \/ StoreRLock(w) /\ UNCHANGED adapterVars
       \/ StoreLock(w) /\ UNCHANGED adapterVars
       \/ GetPool(w) /\ UNCHANGED adapterVars
       \/ CreateList(w) /\ UNCHANGED idleVars
       \/ /\ call[w].at = "inside"
          /\ \E order \in Orders(ofPool(store[call[w].inst].data, call[w].key)) :
               ListAllocationsByPool(w, order) /\ UNCHANGED adapterVars
       \/ CreateSave(w) /\ UNCHANGED idleVars
       \/ SaveAllocation(w) /\ UNCHANGED adapterVars
       \/ \E put \in PutOutcomes : PutObject(w, put) /\ UNCHANGED adapterVars
       \/ save(w) /\ UNCHANGED adapterVars
       \/ CreateDone(w) /\ UNCHANGED idleVars

SpecAllocate == InitAllocate /\ [][NextAllocate]_vars

----------------------------------------------------------------------------
(* The adapter's requests one after another: one caller "w1", pool "p",      *)
(* allocation requests on "p" and on "q", which is never registered.  The    *)
(* response of every finished request is kept in obs.                        *)

\* most requests made in one behaviour of the request specification
MaxRequests == 6

\* CIDR lists given to pool create and update: one range, two ranges out of
\* order, one range twice, two IPv6 ranges, no CIDR, a CIDR followed by no
\* CIDR
RequestLists ==
  { <<Low>>, <<High, Low>>, <<Low, Low>>,
    <<T6(32, 1, 13, 184, 0, 32), T6(32, 1, 13, 185, 0, 32)>>,
    <<BadText>>, <<Low, BadText>> }

\* prefix lengths of the allocation requests
RequestPrefixLens == {-1, 0, 31, 32, 48, 128, 129}

\* the variables of the storage package but the request counter
backendVars == <<remote, store, smu, call, settled>>

\* a response without error or result to request number seq.  The observer
\* keeps with it, for every allocation Terraform holds, the CIDR list its
\* pool had when the allocation was made (lists)
Response(seq, op, name) ==
  [seq |-> seq, op |-> op, name |-> name, cidrs |-> <<>>, prefixLength |-> 0,
   err |-> "", allocatedIP |-> BadText, allocationID |-> <<>>,
   before |-> EmptyMap, prev |-> NoObs,
   lists |-> IF obs = NoObs THEN EmptyMap ELSE obs.lists]

\* the response of a pool create or update: the diagnostics of lines 99-107
PoolResponse(op, name, cidrs) ==
  [Response(calls + 1, op, name) EXCEPT
     !.cidrs = cidrs,
     !.err = IF invalidCIDR(cidrs) THEN "Invalid CIDR" ELSE ""]

\* what is kept of the response before the one to an allocation request
Previous ==
  IF obs.op = "alloc_delete"
  THEN [op |-> obs.op, name |-> obs.name, prefixLength |-> obs.prefixLength,
        allocatedIP |-> obs.allocatedIP, allocationID |-> obs.allocationID,
        cidrs |-> obs.cidrs]
  ELSE [op |-> obs.op]

\* the response of an allocation request that ends with error err, or with
\* the allocation made; with it the pool's CIDR list and the registry the
\* request ran against
AllocResponse(seq, name, prefixLength, err, allocatedIP, allocationID) ==
  [Response(seq, "alloc_create", name) EXCEPT
     !.prefixLength = prefixLength, !.err = err,
     !.allocatedIP = allocatedIP, !.allocationID = allocationID,
     !.cidrs = IF name \in DOMAIN pools THEN pools[name].CIDRs ELSE <<>>,
     !.before = IF err = "" THEN MapDelete(allocations, allocationID) ELSE allocations,
     !.prev = Previous,
     !.lists = IF err = "" THEN MapPut(@, allocationID, pools[name].CIDRs) ELSE @]

\* the response of an allocation read or delete; with a delete, the CIDR
\* list the pool had when the allocation it removes was made
ResourceResponse(seq, op, data) ==
  [Response(seq, op, data.PoolName) EXCEPT
     !.prefixLength = data.PrefixLength,
     !.allocatedIP = data.AllocatedIP, !.allocationID = data.ID,
     !.cidrs = IF op = "alloc_delete" THEN obs.lists[data.ID] ELSE <<>>,
     !.lists = IF op = "alloc_delete" THEN MapDelete(@, data.ID) ELSE @]

InitRequests ==
  /\ pools = EmptyMap
  /\ allocations = EmptyMap
  /\ mu = "free"
  /\ pc = [w \in Workers |-> Idle]
  /\ tfAllocs = EmptyBag
  /\ obs = NoObs
  /\ provider \in Providers
  /\ StoreUnused

\* a handler's first step: the request is counted
Requested == calls < MaxRequests /\ calls' = calls + 1 /\ UNCHANGED <<provider, backendVars>>

\* a handler's later step
Continued == UNCHANGED <<provider, storeVars>>

NextRequests ==
  \/ \E cidrs \in RequestLists :
       /\ PoolCreate("w1", "p", cidrs) /\ Requested
       /\ obs' = PoolResponse("pool_create", "p", cidrs)
  \/ \E cidrs \in RequestLists :
       /\ PoolUpdate("w1", "p", cidrs) /\ Requested
       /\ obs' = PoolResponse("pool_update", "p", cidrs)
  \/ /\ PoolDeleteCheck("w1", "p") /\ Requested
     /\ obs' = IF provider = NilProvider
               THEN Response(calls + 1, "pool_delete", "p")
               ELSE IF pc'["w1"] = Idle
               THEN [Response(calls + 1, "pool_delete", "p") EXCEPT
                       !.err = "Cannot Delete Pool"]
               ELSE obs
  \/ /\ PoolDeleteRemove("w1") /\ Continued
     /\ obs' = Response(calls, "pool_delete", pc["w1"].name)
  \/ \E name \in PoolNames, l \in RequestPrefixLens :
       /\ Room(MaxAllocs) /\ AllocCreate("w1", name, l) /\ Requested
       /\ obs' = IF pc'["w1"] = Idle
                 THEN AllocResponse(calls + 1, name, l, "Invalid Prefix Length",
                                    BadText, <<>>)
                 ELSE obs
  \/ /\ allocateLock("w1") /\ Continued
     /\ obs' = IF pc'["w1"] = Idle
               THEN AllocResponse(calls, pc["w1"].poolName, pc["w1"].prefixLength,
                                  "provider not configured", BadText, <<>>)
               ELSE obs
  \/ \E order \in MapOrders(allocations) :
       /\ allocateCollect("w1", order) /\ Continued
       /\ obs' = IF pc'["w1"] = Idle
                 THEN AllocResponse(calls, pc["w1"].poolName, pc["w1"].prefixLength,
                                    "pool not found", BadText, <<>>)
                 ELSE obs
  \/ /\ allocateSearch("w1") /\ Continued
     /\ obs' = IF pc'["w1"] = Idle
               THEN AllocResponse(calls, pc["w1"].poolName, pc["w1"].prefixLength,
                                  searchOutcome("w1").err, BadText, <<>>)
               ELSE obs
  \/ /\ AllocCreateSet("w1") /\ Continued
     /\ obs' = AllocResponse(calls, pc["w1"].data.PoolName, pc["w1"].data.PrefixLength,
                             "", pc["w1"].data.AllocatedIP, pc["w1"].data.ID)
  \/ \E data \in BagToSet(tfAllocs) :
       /\ AllocRead("w1", data) /\ Requested
       /\ obs' = ResourceResponse(calls + 1, "alloc_read", data)
  \/ \E data \in BagToSet(tfAllocs) :
       /\ AllocDelete("w1", data) /\ Requested /\ UNCHANGED obs
  \/ /\ AllocDeleteReturn("w1") /\ Continued
     /\ obs' = ResourceResponse(calls, "alloc_delete", pc["w1"].data)

SpecRequests == InitRequests /\ [][NextRequests]_vars

----------------------------------------------------------------------------
(* The functions of the search called on their own: a behaviour makes one    *)
(* call of addIPOffset, of findAvailableCIDR for its block count, or of      *)
(* cidrsOverlap, and the call with its result is kept in obs.                *)

\* highest block index given to addIPOffset
MaxIndex == 3

\* addresses given to addIPOffset, some with 255 in their low bytes
OffsetBases ==
  { <<10, 0, 0, 0>>, <<10, 0, 255, 255>>, <<255, 255, 255, 254>>,
    T6(32, 1, 13, 184, 0, 0).ip, T6(32, 1, 13, 184, 255, 0).ip,
    [i \in 1..16 |-> IF i <= 8 THEN 0 ELSE 255] }

\* prefix lengths given to addIPOffset for addresses of bits bits
OffsetPrefixLens(bits) ==
  IF bits = 32 THEN {0, 1, 8, 15, 16, 24, 31, 32}
  ELSE {0, 32, 64, 65, 66, 67, 96, 120, 127, 128}

\* the IPv6 CIDR text "::ffff:a.b.c.d/n"
Mapped(a, b, c, d, n) == [ip |-> v4InV6Prefix \o <<a, b, c, d>>, n |-> n]

\* the blocks given to cidrsOverlap, all aligned to their prefix
OverlapBlocks ==
  { T4(0, 0, 0, 0, 0), T4(10, 0, 0, 0, 30), T4(10, 0, 0, 4, 30),
    T4(10, 0, 0, 0, 31), T4(10, 0, 0, 2, 31),
    T4(10, 0, 0, 1, 32), T4(10, 0, 0, 3, 32),
    T6(0, 0, 0, 0, 0, 0), T6(32, 1, 13, 184, 0, 32), T6(32, 1, 13, 185, 0, 32),
    T6(32, 1, 13, 184, 0, 126), T6(32, 1, 13, 184, 1, 128),
    T6(32, 1, 13, 184, 4, 126), Mapped(0, 0, 0, 0, 96), Mapped(10, 0, 0, 0, 128) }

\* the blocks of OverlapBlocks of the family of block a
SameFamily(a) == {b \in OverlapBlocks : Len(b.ip) = Len(a.ip)}

\* the parsed blocks of a list of CIDR texts
parseAll(texts) == [i \in 1..Len(texts) |-> ParseCIDR(texts[i])]

\* a call of addIPOffset on a copy of ip (lines 310-312)
CallAddIPOffset(ip, blockIndex, prefixLength) ==
  obs' = [op |-> "addIPOffset", ip |-> ip, blockIndex |-> blockIndex,
             prefixLength |-> prefixLength, totalBits |-> 8 * Len(ip),
             result |-> addIPOffset(ip, blockIndex, prefixLength, 8 * Len(ip))]

\* findAvailableCIDR on the range of poolPrefixLen bits at address zero with
\* no allocation (lines 294-332): found is what it returns, numBlocks what
\* line 301 computes when the function gets there
CallNumBlocks(bits, poolPrefixLen, prefixLength) ==
  obs' = [op |-> "numBlocks", bits |-> bits, poolPrefixLen |-> poolPrefixLen,
             prefixLength |-> prefixLength,
             numBlocks |-> IF prefixLength - poolPrefixLen < 0 THEN <<>>
                           ELSE numBlocks(prefixLength - poolPrefixLen),
             found |-> findAvailableCIDR(
                         ParseCIDR([ip |-> [i \in 1..(bits \div 8) |-> 0],
                                    n |-> poolPrefixLen]),
                         prefixLength, <<>>)]

\* calls of cidrsOverlap (lines 375-392) with the candidate and the list, with
\* the candidate and each element of the list, and with each element as the
\* candidate against the candidate
CallCidrsOverlap(candidate, allocated) ==
  obs' = [op |-> "cidrsOverlap", candidate |-> candidate, allocated |-> allocated,
             result |-> cidrsOverlap(ParseCIDR(candidate), parseAll(allocated)),
             each |-> [i \in 1..Len(allocated) |->
                         cidrsOverlap(ParseCIDR(candidate), <<ParseCIDR(allocated[i])>>)],
             converse |-> [i \in 1..Len(allocated) |->
                         cidrsOverlap(ParseCIDR(allocated[i]), <<ParseCIDR(candidate)>>)]]

InitFunctions ==
  /\ pools = EmptyMap
  /\ allocations = EmptyMap
  /\ mu = "free"
  /\ pc = [w \in Workers |-> Idle]
  /\ tfAllocs = EmptyBag
  /\ obs = NoObs
  /\ provider = NilProvider
  /\ StoreUnused

\* the variables of the adapter and of the store, which no call touches
stateVars == <<pools, allocations, mu, pc, tfAllocs, provider, storeVars>>

\* one call, made from the initial state
NextFunctions ==
  \/ /\ obs = NoObs
     /\ \E ip \in OffsetBases, blockIndex \in 0..MaxIndex :
          \E prefixLength \in OffsetPrefixLens(8 * Len(ip)) :
            CallAddIPOffset(ip, blockIndex, prefixLength)
     /\ UNCHANGED stateVars
  \/ /\ obs = NoObs
     /\ \E bits \in {32, 128} :
          \E poolPrefixLen \in 0..bits, prefixLength \in 0..bits :
            CallNumBlocks(bits, poolPrefixLen, prefixLength)
     /\ UNCHANGED stateVars
  \/ /\ obs = NoObs
     /\ \E candidate \in OverlapBlocks :
          \E b1 \in SameFamily(candidate), b2 \in SameFamily(candidate) \cup {BadText} :
            CallCidrsOverlap(candidate, IF b2 = BadText THEN <<b1>> ELSE <<b1, b2>>)
     /\ UNCHANGED stateVars

SpecFunctions == InitFunctions /\ [][NextFunctions]_vars
----------------------------------------------------------------------------
(* The store's mutating calls on several keys: one instance, one caller,     *)
(* pools "p" and "q", allocations "a" and "b".                               *)

\* most store calls made in one behaviour of this specification
MaxMutations == 4

\* the Pool values given to SavePool and the Allocation values given to
\* SaveAllocation
KeyPools ==
  { [Name |-> "p", CIDRs |-> <<Low>>], [Name |-> "p", CIDRs |-> <<High, Low>>],
    [Name |-> "q", CIDRs |-> <<High>>] }
KeyAllocations ==
  { [ID |-> "a", PoolName |-> "p", AllocatedCIDR |-> Low, PrefixLength |-> 31],
    [ID |-> "a", PoolName |-> "q", AllocatedCIDR |-> High, PrefixLength |-> 31],
    [ID |-> "b", PoolName |-> "p", AllocatedCIDR |-> T4(10, 0, 0, 1, 32),
     PrefixLength |-> 32] }

\* the mutating calls a caller makes on instance i
KeyRequests(i) ==
  {Request("SavePool", i, pool.Name, pool) : pool \in KeyPools}
  \cup {Request("DeletePool", i, pool.Name, <<>>) : pool \in KeyPools}
  \cup {Request("SaveAllocation", i, a.ID, a) : a \in KeyAllocations}
  \cup {Request("DeleteAllocation", i, a.ID, <<>>) : a \in KeyAllocations}

InitKeys ==
  /\ pools = EmptyMap
  /\ allocations = EmptyMap
  /\ mu = "free"
  /\ pc = [w \in Workers |-> Idle]
  /\ tfAllocs = EmptyBag
  /\ obs = NoObs
  /\ provider = NilProvider
  /\ StoreUnused

NextKeys ==
  \/ \E get \in GetOutcomes :
       Factory("s1", S3Config, "ok", get) /\ UNCHANGED adapterVars
  \/ \E req \in KeyRequests("s1") :
       calls < MaxMutations /\ StoreCall("w1", req) /\ UNCHANGED adapterVars
  \/ StoreLock("w1") /\ UNCHANGED adapterVars
  \/ SavePool("w1") /\ UNCHANGED adapterVars
  \/ DeletePool("w1") /\ UNCHANGED adapterVars
  \/ SaveAllocation("w1") /\ UNCHANGED adapterVars
  \/ DeleteAllocation("w1") /\ UNCHANGED adapterVars
  \/ \E put \in PutOutcomes : PutObject("w1", put) /\ UNCHANGED adapterVars
  \/ save("w1") /\ UNCHANGED adapterVars

SpecKeys == InitKeys /\ [][NextKeys]_vars

----------------------------------------------------------------------------
(* Two instances built on one object: "s1" and "s2" are built at any time,   *)
(* and two callers call either of them, so that a call on one instance runs  *)
(* while a call on the other waits for the backend.                          *)

\* most store calls made in one behaviour of this specification
MaxInstanceCalls == 4

\* the calls a caller makes on instance i
InstanceRequests(i) ==
  { Request("SavePool", i, "p", [Name |-> "p", CIDRs |-> <<Low>>]),
    Request("SaveAllocation", i, "a",
            [ID |-> "a", PoolName |-> "p", AllocatedCIDR |-> Low, PrefixLength |-> 31]),
    Request("DeleteAllocation", i, "a", <<>>),
    Request("GetAllocation", i, "a", <<>>) }

InitInstances ==
  /\ pools = EmptyMap
  /\ allocations = EmptyMap
  /\ mu = "free"
  /\ pc = [w \in Workers |-> Idle]
  /\ tfAllocs = EmptyBag
  /\ obs = NoObs
  /\ provider = NilProvider
  /\ StoreUnused

NextInstances ==
  \/ \E i \in Instances, get \in GetOutcomes :
       Factory(i, S3Config, "ok", get) /\ UNCHANGED adapterVars
  \/ \E c \in Callers :
       \/ \E i \in Instances : \E req \in InstanceRequests(i) :
            calls < MaxInstanceCalls /\ StoreCall(c, req) /\ UNCHANGED adapterVars
       \/ StoreRLock(c) /\ UNCHANGED adapterVars
       \/ StoreLock(c) /\ UNCHANGED adapterVars
       \/ GetAllocation(c) /\ UNCHANGED adapterVars
       \/ SavePool(c) /\ UNCHANGED adapterVars
       \/ SaveAllocation(c) /\ UNCHANGED adapterVars
       \/ DeleteAllocation(c) /\ UNCHANGED adapterVars
       \/ \E put \in PutOutcomes : PutObject(c, put) /\ UNCHANGED adapterVars
       \/ save(c) /\ UNCHANGED adapterVars

SpecInstances == InitInstances /\ [][NextInstances]_vars

----------------------------------------------------------------------------
(* Progress.  The adapter's mu and an instance's mu are different locks and  *)
(* no operation holds both, so a behaviour of this specification runs the    *)
(* adapter's requests of two workers, or, started with instance "s1" built,  *)
(* the store calls of two callers.  Requests and calls start at any time;    *)
(* what is assumed of the scheduler is said in Progress below.               *)

\* most store calls made in one behaviour of this specification
MaxLiveCalls == 3

\* the calls a caller makes on instance i
LiveRequests(i) ==
  { Request("GetPool", i, "p", <<>>),
    Request("SavePool", i, "p", [Name |-> "p", CIDRs |-> <<Low>>]),
    Request("DeletePool", i, "p", <<>>) }

\* the CIDR lists and prefix lengths of the workers' requests
LiveLists == { <<Low>> }
LivePrefixLens == {-1, 31, 32}

InitLive ==
  /\ pools = EmptyMap
  /\ allocations = EmptyMap
  /\ mu = "free"
  /\ pc = [w \in Workers |-> Idle]
  /\ tfAllocs = EmptyBag
  /\ obs = NoObs
  /\ provider \in Providers
  /\ remote = NoObject
  /\ store \in { [i \in Instances |-> NotBuilt],
                 [i \in Instances |->
                    IF i = "s1" THEN construct(S3Config, "ok", NoObject, "ok")
                    ELSE NotBuilt] }
  /\ smu = [i \in Instances |-> Unlocked]
  /\ call = [c \in Callers |-> NoCall]
  /\ settled = [i \in Instances |-> NoneSettled]
  /\ calls = 0

\* the adapter is the one in use
AdapterInUse == store["s1"] = NotBuilt /\ UNCHANGED <<obs, provider, storeVars>>

\* worker w's request waits for mu and takes it: the allocation's Lock
\* (allocation_resource.go 235), the pool delete's Lock (pool_resource.go 244)
AcquireMu(w) ==
  AdapterInUse /\ (allocateLock(w) \/ PoolDeleteRemove(w))

\* worker w's allocation goes on inside the lock: the lookup and the
\* collection, then the search to the return
Collects(w) ==
  AdapterInUse /\ \E order \in MapOrders(allocations) : allocateCollect(w, order)

Searches(w) == AdapterInUse /\ allocateSearch(w)

\* the steps in which worker w's search returns, as the scheduler sees them:
\* Searches(w) is such a step, and it can be taken in every state in which w
\* is in the search (C35's formula says so)
SearchReturns(w) ==
  /\ pc[w].op = "search"
  /\ \/ pc' = [pc EXCEPT ![w] = Idle]
     \/ pc'[w].op = "created"

\* worker w's handler goes on after the lock is released, to its return:
\* Create and ImportState set the state, Delete removes the resource
Returns(w) ==
  AdapterInUse /\ (AllocCreateSet(w) \/ AllocDeleteReturn(w) \/ AllocImportSet(w))

\* the ids given to ImportState: those registered, and one that is not
LiveImportIDs == DOMAIN allocations \cup {AllocationID("q", Low)}

\* most resources of Terraform's state when an import starts
MaxLiveHeld == 2

\* caller c's call waits for the instance's mu and takes it
AcquireStoreMu(c) == (StoreRLock(c) \/ StoreLock(c)) /\ UNCHANGED adapterVars

\* caller c's call goes on inside the lock: a read to its return; a mutating
\* call to its return with ErrNotFound or to its write request, and, once the
\* backend has answered the request, to its return
InsideStoreMu(c) ==
  /\ UNCHANGED adapterVars
  /\ \/ GetPool(c)
     \/ SavePool(c)
     \/ DeletePool(c)
     \/ save(c)

\* the write request of caller c returns, with the backend's answer or with
\* an error
Serves(c) == UNCHANGED adapterVars /\ \E put \in PutOutcomes : PutObject(c, put)

NextLive ==
  \/ \E w \in Workers, cidrs \in LiveLists : PoolCreate(w, "p", cidrs) /\ AdapterInUse
  \/ \E w \in Workers : PoolDeleteCheck(w, "p") /\ AdapterInUse
  \/ \E w \in Workers, name \in PoolNames, l \in LivePrefixLens :
       Room(MaxAllocs) /\ AllocCreate(w, name, l) /\ AdapterInUse
  \/ \E w \in Workers, data \in BagToSet(tfAllocs) : AllocDelete(w, data) /\ AdapterInUse
  \/ \E w \in Workers, id \in LiveImportIDs :
       BagCardinality(tfAllocs) < MaxLiveHeld /\ AllocImport(w, id) /\ AdapterInUse
  \/ \E w \in Workers : AcquireMu(w)
  \/ \E w \in Workers : Collects(w)
  \/ \E w \in Workers : Searches(w)
  \/ \E w \in Workers : Returns(w)
  \/ \E c \in Callers, req \in LiveRequests("s1") :
       calls < MaxLiveCalls /\ StoreCall(c, req) /\ UNCHANGED adapterVars
  \/ \E c \in Callers : AcquireStoreMu(c)
  \/ \E c \in Callers : InsideStoreMu(c)
  \/ \E c \in Callers : Serves(c)

\* The scheduler.  A request or call that is inside a lock runs on while it
\* has a step of its own to take (weak fairness; the search is a loop that
\* ends).  One that waits for a lock gets it if the lock is free again and
\* again (strong fairness): sync.Mutex and sync.RWMutex hand the lock to a
\* waiter that has waited long, and a waiting writer keeps new readers out.
\* The return of the write request is not the scheduler's: save calls
\* PutObject (aws_s3.go line 155; UploadStream, azure_blob.go line 95) inside
\* the lock with the handler's context, which has no deadline, and a client
\* without a timeout (lines 94-100), so the call returns when the backend
\* answers or the connection fails, and not before.  Serves has no fairness
\* condition.
Progress ==
  /\ \A w \in Workers :
       /\ SF_vars(AcquireMu(w)) /\ WF_vars(Collects(w)) /\ WF_pc(SearchReturns(w))
       /\ WF_vars(Returns(w))
  /\ \A c \in Callers : SF_vars(AcquireStoreMu(c)) /\ WF_vars(InsideStoreMu(c))

SpecLive == InitLive /\ [][NextLive]_vars /\ Progress

----------------------------------------------------------------------------
(* The allocation search step by step: one caller "w1", pool "p".  The loop  *)
(* over the pool's ranges (allocation_resource.go 257-285) and the loop over *)
(* a range's blocks (findAvailableCIDR, 308-330) take one step for every     *)
(* iteration; the request's other steps are those of the adapter.            *)

\* most requests made in one behaviour of this specification
MaxScans == 4

\* the ranges of the pools: IPv4, IPv6, and IPv6 with IPv4-mapped addresses
V6Pair == T6(32, 1, 13, 184, 0, 127)
V6Wide == T6(32, 1, 13, 184, 0, 64)
MappedPair == [ip |-> v4InV6Prefix \o <<10, 0, 0, 0>>, n |-> 127]

\* CIDR lists given to the pool create: no range, ranges of one family and of
\* both
ScanLists ==
  { <<>>, <<Low>>, <<Low, High>>, <<Low, V6Pair>>, <<V6Wide>>, <<MappedPair>> }

\* prefix lengths of the allocation requests
ScanPrefixLens == {0, 31, 32, 33, 64, 128}

\* the request of worker record p at the head of the loop over the ranges,
\* rest being the ranges not yet visited
RangeAt(p, rest) ==
  [op |-> "range", poolName |-> p.poolName, prefixLength |-> p.prefixLength,
   pool |-> p.pool, allocatedCIDRs |-> p.allocatedCIDRs, cidrs |-> rest]

\* the request at the head of iteration i of findAvailableCIDR's loop over
\* the blocks of poolNet
BlockAt(p, rest, poolNet, i) ==
  [op |-> "block", poolName |-> p.poolName, prefixLength |-> p.prefixLength,
   pool |-> p.pool, allocatedCIDRs |-> p.allocatedCIDRs, cidrs |-> rest,
   poolNet |-> poolNet, i |-> i]

\* the ranges the loop of line 257 has not visited
Unvisited(p) == IF p.op = "search" THEN p.pool.CIDRs ELSE p.cidrs

\* continue (lines 260, 267) and the return of nil from findAvailableCIDR
\* (lines 298, 332): the loop over the ranges goes on with rest
scanContinue(w, rest) ==
  /\ pc' = [pc EXCEPT ![w] = RangeAt(pc[w], rest)]
  /\ UNCHANGED <<pools, allocations, mu, tfAllocs>>

\* lines 272-288: the request returns with candidateCIDR registered, or, the
\* ranges being exhausted (NilNet), with the error; the deferred Unlock runs
scanReturn(w, candidateCIDR) ==
  returned(w, allocateFound(allocations, pc[w].poolName, pc[w].prefixLength,
                            candidateCIDR))

\* lines 258-271 for the range parsed as poolNet: skip it, or enter
\* findAvailableCIDR's loop at i := 0
scanEnter(w, poolNet, rest) ==
  IF poolNet = NilNet \/ pc[w].prefixLength < MaskSize(poolNet.Mask)[1]
  THEN scanContinue(w, rest)
  ELSE /\ pc' = [pc EXCEPT ![w] = BlockAt(pc[w], rest, poolNet, 0)]
       /\ UNCHANGED <<pools, allocations, mu, tfAllocs>>

\* the head of the loop over the ranges (line 257): the next range, or past
\* the last one the return of line 288
scanRange(w) ==
  /\ pc[w].op \in {"search", "range"}
  /\ IF Unvisited(pc[w]) = <<>> THEN scanReturn(w, NilNet)
     ELSE scanEnter(w, ParseCIDR(Head(Unvisited(pc[w]))), Tail(Unvisited(pc[w])))

\* a candidate whose mask is no longer than the addresses of the range
scanCandidateClamped(p, size) ==
  candidateNet(p.poolNet.IP, IF p.prefixLength > size[2] THEN size[2] ELSE p.prefixLength,
               size[2],
               CIDRMask(IF p.prefixLength > size[2] THEN size[2] ELSE p.prefixLength,
                        size[2]),
               p.i)

\* the candidate of the iteration the request p is at
scanCandidate(p, size) ==
  candidateNet(p.poolNet.IP, p.prefixLength, size[2],
               CIDRMask(p.prefixLength, size[2]), p.i)

\* an iteration that starts the loop over instead of going on to i + 1
scanBlockRestarts(w, size, candidate) ==
  IF ~I64Above(numBlocks(pc[w].prefixLength - size[1]), pc[w].i)
  THEN scanContinue(w, pc[w].cidrs)
  ELSE IF candidateFree(pc[w].poolNet, candidate, pc[w].allocatedCIDRs)
  THEN scanReturn(w, candidate)
  ELSE IF ~I64Positive(I64Shl1(size[2] - pc[w].prefixLength))
  THEN scanContinue(w, pc[w].cidrs)
  ELSE /\ pc' = [pc EXCEPT ![w].i = IF @ = 0 THEN 1 ELSE 0]
       /\ UNCHANGED <<pools, allocations, mu, tfAllocs>>

\* one iteration of findAvailableCIDR's loop (lines 308-330), candidate
\* being its candidateNet: past numBlocks the function returns nil; a free
\* candidate is returned and registered; a candidate that is not free leads
\* to i++.  When the block size 1 << hostBits is not positive every iteration
\* has the candidate of iteration 0, and the iterations that are left, which
\* reject it again, are taken in this one step.
scanBlockSized(w, size, candidate) ==
  IF ~I64Above(numBlocks(pc[w].prefixLength - size[1]), pc[w].i)
  THEN scanContinue(w, pc[w].cidrs)
  ELSE IF candidateFree(pc[w].poolNet, candidate, pc[w].allocatedCIDRs)
  THEN scanReturn(w, candidate)
  ELSE IF ~I64Positive(I64Shl1(size[2] - pc[w].prefixLength))
  THEN scanContinue(w, pc[w].cidrs)
  ELSE /\ pc' = [pc EXCEPT ![w].i = @ + 1]
       /\ UNCHANGED <<pools, allocations, mu, tfAllocs>>

scanBlock(w) ==
  /\ pc[w].op = "block"
  /\ \E size \in {MaskSize(pc[w].poolNet.Mask)} :
       \E candidate \in {scanCandidate(pc[w], size)} :
         scanBlockSized(w, size, candidate)

\* what is kept of a request that has returned: the request as it was at its
\* last step, and the allocations before and after
ScanResponse ==
  [op |-> "scan", seq |-> calls, request |-> pc["w1"],
   before |-> allocations, after |-> allocations']

InitScan ==
  /\ pools = EmptyMap
  /\ allocations = EmptyMap
  /\ mu = "free"
  /\ pc = [w \in Workers |-> Idle]
  /\ tfAllocs = EmptyBag
  /\ obs = NoObs
  /\ provider \in Providers
  /\ StoreUnused

\* the steps of the search of "w1", the response kept when it returns
ScanRangeStep ==
  /\ scanRange("w1") /\ Continued
  /\ obs' = IF pc'["w1"].op \in {"idle", "created"} THEN ScanResponse ELSE obs

ScanBlockStep ==
  /\ scanBlock("w1") /\ Continued
  /\ obs' = IF pc'["w1"].op \in {"idle", "created"} THEN ScanResponse ELSE obs

NextScan ==
  \/ \E cidrs \in ScanLists :
       /\ calls < MaxScans /\ calls' = calls + 1
       /\ PoolCreate("w1", "p", cidrs) /\ UNCHANGED <<obs, provider, backendVars>>
  \/ \E l \in ScanPrefixLens :
       /\ calls < MaxScans /\ calls' = calls + 1
       /\ Room(MaxAllocs) /\ AllocCreate("w1", "p", l) /\ UNCHANGED <<obs, provider, backendVars>>
  \/ allocateLock("w1") /\ Continued /\ UNCHANGED obs
  \/ \E order \in MapOrders(allocations) :
       allocateCollect("w1", order) /\ Continued /\ UNCHANGED obs
  \/ ScanRangeStep
  \/ ScanBlockStep
  \/ AllocCreateSet("w1") /\ Continued /\ UNCHANGED obs

\* the ranges of ScanLists as ParseCIDR gives them
ScanNets ==
  UNION { {ParseCIDR(cidrs[k]) : k \in DOMAIN cidrs} : cidrs \in ScanLists }

\* the steps in which the search is at the head of the loop over the ranges
\* and leaves it: to the return, to the next range, or into a range
RangeLeft(w) ==
  /\ pc[w].op \in {"search", "range"}
  /\ \/ pc' = [pc EXCEPT ![w] = Idle]
     \/ pc' = [pc EXCEPT ![w] = RangeAt(pc[w], Tail(Unvisited(pc[w])))]
     \/ \E poolNet \in ScanNets :
          pc' = [pc EXCEPT ![w] = BlockAt(pc[w], Tail(Unvisited(pc[w])), poolNet, 0)]
     \/ pc'[w].op = "created"

\* the steps in which the search is at a block and leaves it: to the next
\* block, to the loop over the ranges, or to the return
BlockLeft(w) ==
  /\ pc[w].op = "block"
  /\ \/ pc' = [pc EXCEPT ![w].i = @ + 1]
     \/ pc' = [pc EXCEPT ![w] = RangeAt(pc[w], pc[w].cidrs)]
     \/ pc' = [pc EXCEPT ![w] = Idle]
     \/ pc'[w].op = "created"

\* The scheduler: the search runs on; it is the caller's goroutine and waits
\* for nothing.  RangeLeft and BlockLeft speak of the steps ScanRangeStep
\* and ScanBlockStep: the first has no condition but that the search is at
\* the head of the loop over the ranges, the second none but that it is at a
\* block.  The handler then sets the state and returns.
ScanProgress ==
  /\ WF_vars(allocateLock("w1") /\ Continued /\ UNCHANGED obs)
  /\ WF_vars(\E order \in MapOrders(allocations) :
               allocateCollect("w1", order) /\ Continued /\ UNCHANGED obs)
  /\ WF_pc(RangeLeft("w1"))
  /\ WF_pc(BlockLeft("w1"))
  /\ WF_vars(AllocCreateSet("w1") /\ Continued /\ UNCHANGED obs)

SpecScan == InitScan /\ [][NextScan]_vars /\ ScanProgress

----------------------------------------------------------------------------
(* Vocabulary of the properties: a CIDR text read as the set of addresses    *)
(* from its first to its last, addresses compared as unsigned big-endian     *)
(* integers.  None of this is taken from the program.                        *)

RECURSIVE BytesLeq(_, _)
\* a <= b for equally long big-endian byte strings
BytesLeq(a, b) ==
  IF a = <<>> THEN TRUE
  ELSE IF Head(a) # Head(b) THEN Head(a) < Head(b)
  ELSE BytesLeq(Tail(a), Tail(b))

\* how many bits of byte i a prefix of n bits fixes
FixedBits(n, i) == IF n >= 8 * i THEN 8 ELSE IF n <= 8 * (i - 1) THEN 0 ELSE n - 8 * (i - 1)

\* the text names a block: an IPv4 or IPv6 address and a prefix within its width
IsBlock(text) ==
  /\ Len(text.ip) \in {4, 16}
  /\ text.n >= 0 /\ text.n <= 8 * Len(text.ip)

\* the lowest address of the block
FirstAddress(text) ==
  [i \in 1..Len(text.ip) |-> text.ip[i] - (text.ip[i] % Pow2(8 - FixedBits(text.n, i)))]

\* the highest address of the block
LastAddress(text) ==
  [i \in 1..Len(text.ip) |->
     text.ip[i] - (text.ip[i] % Pow2(8 - FixedBits(text.n, i)))
       + Pow2(8 - FixedBits(text.n, i)) - 1]

\* the two blocks share an address
Overlap(a, b) ==
  /\ IsBlock(a) /\ IsBlock(b) /\ Len(a.ip) = Len(b.ip)
  /\ BytesLeq(FirstAddress(a), LastAddress(b))
  /\ BytesLeq(FirstAddress(b), LastAddress(a))

\* every address of block b is an address of range r
Inside(b, r) ==
  /\ IsBlock(b) /\ IsBlock(r) /\ Len(b.ip) = Len(r.ip)
  /\ BytesLeq(FirstAddress(r), FirstAddress(b))
  /\ BytesLeq(LastAddress(b), LastAddress(r))

\* block b as a block of IPv6 addresses: an IPv4 block is the block of its
\* IPv4-mapped addresses, ::ffff:a.b.c.d
AsMapped(b) ==
  IF Len(b.ip) = 4 THEN [ip |-> v4InV6Prefix \o b.ip, n |-> b.n + 96] ELSE b

\* the CIDR texts registered for pool poolName in the allocations map allocs
RegisteredFor(allocs, poolName) ==
  {allocs[id].AllocatedIP : id \in {x \in DOMAIN allocs : allocs[x].PoolName = poolName}}

\* the last observed request returned a block
Returned == obs.op = "allocate" /\ obs.err = ""

\* the observed request has just returned: its caller has started nothing since
JustObserved == obs.op = "allocate" /\ pc["w1"] = Idle

\* the last observed request reported exhaustion
Exhausted == obs.op = "allocate" /\ obs.err = "no available CIDR blocks"

\* no block
NoBlock == [ip |-> <<>>, n |-> -1]

\* the half of block b whose bit after b's prefix is bit (0: lower, 1: upper)
Half(b, bit) ==
  [ip |-> [i \in 1..Len(b.ip) |->
             IF FixedBits(b.n + 1, i) # FixedBits(b.n, i)
             THEN FirstAddress(b)[i] + bit * Pow2(8 - FixedBits(b.n + 1, i))
             ELSE FirstAddress(b)[i]],
   n |-> b.n + 1]

RECURSIVE LowestFree(_, _, _)
\* the lowest-addressed block of prefix L inside block b that overlaps none of
\* the blocks in existing; NoBlock if there is none
LowestFree(b, L, existing) ==
  IF \A a \in existing : ~Overlap(b, a) THEN [ip |-> FirstAddress(b), n |-> L]
  ELSE IF b.n >= L THEN NoBlock
  ELSE IF \E a \in existing : Overlap(b, a) /\ a.n <= b.n THEN NoBlock
  ELSE LET lower == LowestFree(Half(b, 0), L, existing)
       IN IF lower # NoBlock THEN lower ELSE LowestFree(Half(b, 1), L, existing)

\* the range r can hold blocks of prefix L
Holds(r, L) == IsBlock(r) /\ r.n <= L /\ L <= 8 * Len(r.ip)

\* the free block of prefix L with the lowest block index in range r
RangeLowestFree(r, L, existing) ==
  IF Holds(r, L) THEN LowestFree([ip |-> FirstAddress(r), n |-> r.n], L, existing)
  ELSE NoBlock

RECURSIVE FirstFit(_, _, _)
\* the lowest free block of the first range, in list order, that has one
FirstFit(cidrs, L, existing) ==
  IF cidrs = <<>> THEN NoBlock
  ELSE LET here == RangeLowestFree(Head(cidrs), L, existing)
       IN IF here # NoBlock THEN here ELSE FirstFit(Tail(cidrs), L, existing)

RECURSIVE AddAt(_, _, _)
\* the byte string plus v * 256^(Len - i), wrapping at its width
AddAt(bytes, i, v) ==
  IF i < 1 \/ v = 0 THEN bytes
  ELSE AddAt([j \in 1..Len(bytes) |-> IF j = i THEN (bytes[i] + v) % 256 ELSE bytes[j]],
             i - 1, (bytes[i] + v) \div 256)

\* block number k of prefix L in range r: the range's base plus k * 2^(width - L)
NthBlock(r, L, k) ==
  [ip |-> AddAt(FirstAddress(r), Len(r.ip) - ((8 * Len(r.ip) - L) \div 8),
                k * Pow2((8 * Len(r.ip) - L) % 8)),
   n |-> L]

\* the pool's CIDR list and the registry the last observed request ran against
ObsCIDRs == pools[obs.poolName].CIDRs

ObsExisting == RegisteredFor(obs.before, obs.poolName)

\* the last observed request ran against a pool of one range that can hold
\* blocks of the requested size
ObsSingleRange == Len(ObsCIDRs) = 1 /\ Holds(ObsCIDRs[1], obs.prefixLength)

----------------------------------------------------------------------------
(* Properties of the allocation search (SpecSearch) *)

\* C1: whenever an allocation request for a pool returns a block, the block
\* overlaps no allocation registered for that pool when the request ran, and
\* it lies, first address to last, inside one single range of the pool's list.
\* The two hold in one reading of the families at least: with the IPv4
\* addresses apart from every IPv6 address, or with an IPv4 address being the
\* IPv6 address it is mapped to.
C1_ReturnedBlockFreeAndInside ==
  Returned =>
    \/ /\ \A a \in RegisteredFor(obs.before, obs.poolName) : ~Overlap(obs.allocatedIP, a)
       /\ \E i \in 1..Len(pools[obs.poolName].CIDRs) :
            Inside(obs.allocatedIP, pools[obs.poolName].CIDRs[i])
    \/ /\ \A a \in RegisteredFor(obs.before, obs.poolName) :
            ~Overlap(AsMapped(obs.allocatedIP), AsMapped(a))
       /\ \E i \in 1..Len(pools[obs.poolName].CIDRs) :
            Inside(AsMapped(obs.allocatedIP), AsMapped(pools[obs.poolName].CIDRs[i]))

\* C4: the search is deterministic: a second run on the same pool CIDR list
\* and the same registry returns what the observed run returned (the same
\* block, or exhaustion both times), in whatever order the second run's
\* iteration over the registry visits the allocations.
C4_SameResultInEveryOrder ==
  JustObserved =>
    \A order \in MapOrders(obs.before) :
      LET again == allocateCIDRFromPool(pools, obs.before, order, obs.poolName,
                                        obs.prefixLength)
      IN again.err = obs.err /\ again.allocatedIP = obs.allocatedIP

\* C4 witness: a block returned on a registry of two allocations, which the
\* iteration may visit in two orders
C4_Witness ==
  /\ Returned
  /\ Cardinality(DOMAIN obs.before) = 2
  /\ Cardinality(MapOrders(obs.before)) = 2

\* C5: a returned block is the free block of lowest index in the first range
\* of the pool's list, in stored order, that has a free block of that size.
C5_FirstFitInListOrder ==
  Returned => obs.allocatedIP = FirstFit(ObsCIDRs, obs.prefixLength, ObsExisting)

\* C6: a request reports exhaustion exactly when no range of the pool has a
\* free aligned block of the requested size.
C6_ExhaustedIffNoFreeBlock ==
  obs.op = "allocate" =>
    (Exhausted <=> FirstFit(ObsCIDRs, obs.prefixLength, ObsExisting) = NoBlock)

\* C7: requests of one prefix length L against a single range of prefix P,
\* started on an empty registry: the request after k successes returns block
\* number k (base + k * 2^(width - L)) while k < 2^(L - P), and reports
\* exhaustion once k = 2^(L - P).
C7_SequentialBlocksInIndexOrder ==
  (obs.op = "allocate" /\ obs.runOK /\ ObsSingleRange) =>
    IF \/ obs.prefixLength - ObsCIDRs[1].n >= 30
       \/ Cardinality(DOMAIN obs.before) < Pow2(obs.prefixLength - ObsCIDRs[1].n)
    THEN /\ Returned
         /\ obs.allocatedIP = NthBlock(ObsCIDRs[1], obs.prefixLength,
                                       Cardinality(DOMAIN obs.before))
    ELSE Exhausted

\* C8: on an IPv6 range with a free block of the requested size the request
\* succeeds, and returns the free block of lowest index: the range's base plus
\* k * 2^(128 - L), which keeps the range's prefix bits.
C8_IPv6LowestFreeBlock ==
  (obs.op = "allocate" /\ ObsSingleRange /\ Len(ObsCIDRs[1].ip) = 16
     /\ RangeLowestFree(ObsCIDRs[1], obs.prefixLength, ObsExisting) # NoBlock) =>
    /\ Returned
    /\ obs.allocatedIP = RangeLowestFree(ObsCIDRs[1], obs.prefixLength, ObsExisting)
    /\ Inside(obs.allocatedIP, ObsCIDRs[1])

\* C9: a range whose prefix is longer than the requested one (a block larger
\* than the range) yields no candidate, neither from findAvailableCIDR nor
\* from the loop over the ranges; and when every range of the pool is smaller
\* than the requested block the request fails with the exhaustion error and
\* leaves the registry as it was.
C9_LargerThanRangeNeverServed ==
  JustObserved =>
    /\ \A i \in 1..Len(ObsCIDRs) :
         (IsBlock(ObsCIDRs[i]) /\ obs.prefixLength < ObsCIDRs[i].n) =>
         \A order \in MapOrders(obs.before) :
           /\ findAvailableCIDR(ParseCIDR(ObsCIDRs[i]), obs.prefixLength,
                                collectAllocated(order, obs.poolName)) = NilNet
           /\ searchRange(ParseCIDR(ObsCIDRs[i]), obs.prefixLength,
                          collectAllocated(order, obs.poolName)) = NilNet
    /\ (\A i \in 1..Len(ObsCIDRs) :
          IsBlock(ObsCIDRs[i]) /\ obs.prefixLength < ObsCIDRs[i].n) =>
         /\ Exhausted
         /\ allocations = obs.before

\* C9 witness: a /16 was requested from the pool whose only range is a /24
\* that already holds an allocation
C9_Witness ==
  /\ Exhausted
  /\ obs.prefixLength = 16
  /\ ObsCIDRs = <<T4(10, 0, 0, 0, 24)>>
  /\ obs.before # EmptyMap

\* C10: a /0 request against a /0 range without allocations returns the whole
\* address family, and a request at the address width against a range that
\* still has a free address returns a single-host block inside that range.
C10_ExtremePrefixesServed ==
  (obs.op = "allocate" /\ ObsSingleRange) =>
    /\ (obs.prefixLength = 0 /\ ObsExisting = {}) =>
         (Returned /\ obs.allocatedIP = [ip |-> FirstAddress(ObsCIDRs[1]), n |-> 0])
    /\ (/\ obs.prefixLength = 8 * Len(ObsCIDRs[1].ip)
        /\ RangeLowestFree(ObsCIDRs[1], obs.prefixLength, ObsExisting) # NoBlock) =>
         (/\ Returned
          /\ obs.allocatedIP.n = 8 * Len(ObsCIDRs[1].ip)
          /\ Inside(obs.allocatedIP, ObsCIDRs[1]))

----------------------------------------------------------------------------
(* Properties of the adapter (Spec) *)

\* the workers whose request is in stage op: "created" when its allocation
\* is registered and Create has yet to return, "deleted" when Delete has
\* removed its allocation and has yet to return
InStage(op) == {w \in Workers : pc[w].op = op}

\* the allocations of successful requests not deleted since: a request has
\* succeeded when allocateCIDRFromPool has returned without error, and its
\* allocation is deleted when Delete has removed it
Succeeded ==
  {pc[w].data : w \in InStage("created")} \cup {a \in BagToSet(tfAllocs) : InState(a)}

\* how many successful requests not deleted since have made allocation a
Successes(a) ==
  CopiesIn(a, tfAllocs) + Cardinality({w \in Workers : pc[w] = Created(a)})
    - Cardinality(Deleting(a))

\* C2: allocation requests running concurrently against a pool, each doing its
\* read, search and registration under one acquisition of the lock, lose no
\* update: every successful request that was not deleted since is registered
\* under its own id, the registry holds exactly as many allocations as there
\* were such requests, and their blocks are pairwise non-overlapping per pool.
C2_NoLostUpdate ==
  /\ \A a \in Succeeded :
       /\ Successes(a) = 1
       /\ a.ID \in DOMAIN allocations
       /\ allocations[a.ID] = a
  /\ Cardinality(DOMAIN allocations) + Cardinality(InStage("deleted"))
       = BagCardinality(tfAllocs) + Cardinality(InStage("created"))
  /\ \A a, b \in Succeeded :
       (a # b /\ a.PoolName = b.PoolName) => ~Overlap(a.AllocatedIP, b.AllocatedIP)

\* C2 witness: two requests against one pool that ran at the same time have
\* both succeeded, with different blocks, and neither has returned from
\* Create yet
C2_Witness ==
  \E a, b \in Succeeded :
    /\ a # b /\ a.PoolName = b.PoolName
    /\ \E w, v \in Workers : pc[w] = Created(a) /\ pc[v] = Created(b)

\* C3: in every reachable state, two distinct allocations registered for the
\* same pool have non-overlapping allocated CIDRs.
C3_RegisteredPairwiseDisjoint ==
  \A x, y \in DOMAIN allocations :
    (x # y /\ allocations[x].PoolName = allocations[y].PoolName)
      => ~Overlap(allocations[x].AllocatedIP, allocations[y].AllocatedIP)

\* C3 witness: one pool holds two registered allocations of different sizes
\* after its CIDR list was replaced by the two-range list
C3_Witness ==
  \E x, y \in DOMAIN allocations :
    /\ allocations[x].PoolName = allocations[y].PoolName
    /\ allocations[x].PrefixLength < allocations[y].PrefixLength
    /\ allocations[x].PoolName \in DOMAIN pools
    /\ Len(pools[allocations[x].PoolName].CIDRs) = 2

\* C11: in every reachable state, every registered allocation's CIDR lies
\* inside one of the ranges currently listed by the pool it names, also after
\* an update has replaced the pool's CIDR list.
C11_AllocationsInsideCurrentRanges ==
  \A id \in DOMAIN allocations :
    allocations[id].PoolName \in DOMAIN pools =>
      \E i \in 1..Len(pools[allocations[id].PoolName].CIDRs) :
        Inside(allocations[id].AllocatedIP, pools[allocations[id].PoolName].CIDRs[i])

----------------------------------------------------------------------------
(* Properties of the store, SpecAllocate and SpecStore *)

\* caller c holds the mu of instance i, as a reader or as the writer
HoldsMu(c, i) == smu[i].writer = c \/ c \in smu[i].readers

\* two allocations of one pool in the data of instance i that share an address
OverlappingPair(i) ==
  \E a, b \in DOMAIN store[i].data.Allocations :
    /\ a # b
    /\ store[i].data.Allocations[a].PoolName = store[i].data.Allocations[b].PoolName
    /\ Overlap(store[i].data.Allocations[a].AllocatedCIDR,
               store[i].data.Allocations[b].AllocatedCIDR)

\* C12: an allocation made of the three store calls getPool,
\* listAllocationsByPool and saveAllocation holds the store's lock only for the
\* duration of each call: a worker holds an instance's mu only while it is
\* inside a call on that instance, so between its calls another request's calls
\* run, and two requests can save overlapping blocks in one pool.
C12_LockOnlyForTheDurationOfACall ==
  \A w \in Callers, i \in Instances :
    HoldsMu(w, i) => call[w].at = "inside" /\ call[w].inst = i

\* two allocation requests interleaved between their calls: both have saved,
\* and the pool holds two allocations that overlap
C12_Witness ==
  /\ store["s1"].state = "ready"
  /\ OverlappingPair("s1")
  /\ \A w \in Callers : call[w].op = "SaveAllocation" /\ call[w].at = "returned"
                        /\ call[w].err = ""


Mutators == {"SavePool", "DeletePool", "SaveAllocation", "DeleteAllocation"}

\* this step is caller c's call of op returning
Returning(c, op) ==
  call[c].op = op /\ call[c].at = "inside" /\ call'[c].at = "returned"

\* what a get of a key must return after the last successful mutation of the
\* key left s: the saved value, equal in every field, or NotFound after a delete
RoundTrip(s, err, values) ==
  IF s.present THEN err = "" /\ values = <<s.value>>
  ELSE err = ErrNotFound /\ values = <<>>

\* the Pool values a call returned, without the model's note on their arrays
PoolsOf(r) == [k \in DOMAIN r.pools |-> poolCopy(r.pools[k])]

\* C13: a successful save of a value followed by a get of its key returns a
\* value equal to the saved one in every field (after two saves of one key, the
\* second value), and a successful delete followed by a get of the key returns
\* NotFound; for pools and for allocations.
C13_GetReturnsWhatWasSaved ==
  [][\A c \in Callers :
       /\ (Returning(c, "GetPool")
           /\ call[c].key \in DOMAIN settled[call[c].inst].Pools)
          => RoundTrip(settled[call[c].inst].Pools[call[c].key],
                       call'[c].err, PoolsOf(call'[c]))
       /\ (Returning(c, "GetAllocation")
           /\ call[c].key \in DOMAIN settled[call[c].inst].Allocations)
          => RoundTrip(settled[call[c].inst].Allocations[call[c].key],
                       call'[c].err, call'[c].allocs)]_vars

\* a worker's get returned the allocation that was saved, equal in every
\* field; the allocation was then deleted, and the other worker's get of the
\* key returned NotFound
C13_Witness ==
  /\ call["w1"].op = "GetAllocation" /\ call["w1"].at = "returned"
  /\ call["w1"].err = ""
  /\ call["w1"].allocs \in {<<a>> : a \in StoreAllocations}
  /\ call["w2"].op = "GetAllocation" /\ call["w2"].at = "returned"
  /\ call["w2"].key = call["w1"].key
  /\ call["w2"].key \in DOMAIN settled["s1"].Allocations
  /\ ~settled["s1"].Allocations[call["w2"].key].present
  /\ call["w2"].err = ErrNotFound


\* a list result reflects the settled keys of m: a key whose last successful
\* mutation was a save of a value the list is to show is listed once, with
\* that value; any other settled key is not listed at all.  keys gives the
\* listed values' keys, shown tells whether the list is to show a saved value.
Reflects(m, values, keys, shown) ==
  \A key \in DOMAIN m :
    IF m[key].present /\ shown[key]
    THEN /\ Cardinality({k \in DOMAIN values : keys[k] = key}) = 1
         /\ \E k \in DOMAIN values : values[k] = m[key].value
    ELSE \A k \in DOMAIN values : keys[k] # key

\* C14: within one instance, once a save or a delete of a key has returned
\* successfully, every read that returns afterwards, from any caller, reflects
\* it until a later mutation of the key (a later save or delete of the key,
\* whatever it returned, or a write into the entry's CIDRs array): a get
\* returns the saved value or NotFound, a list shows the saved value once or
\* does not show the deleted key, and the list of a pool's allocations does so
\* for the keys saved under that pool.
C14_ReadsReflectTheLastMutation ==
  [][\A c \in Callers :
       /\ (Returning(c, "GetPool")
           /\ call[c].key \in DOMAIN settled[call[c].inst].Pools)
          => RoundTrip(settled[call[c].inst].Pools[call[c].key],
                       call'[c].err, PoolsOf(call'[c]))
       /\ (Returning(c, "GetAllocation")
           /\ call[c].key \in DOMAIN settled[call[c].inst].Allocations)
          => RoundTrip(settled[call[c].inst].Allocations[call[c].key],
                       call'[c].err, call'[c].allocs)
       /\ Returning(c, "ListPools")
          => Reflects(settled[call[c].inst].Pools, PoolsOf(call'[c]),
                      [k \in DOMAIN call'[c].pools |-> call'[c].pools[k].Name],
                      [n \in DOMAIN settled[call[c].inst].Pools |-> TRUE])
       /\ Returning(c, "ListAllocations")
          => Reflects(settled[call[c].inst].Allocations, call'[c].allocs,
                      [k \in DOMAIN call'[c].allocs |-> call'[c].allocs[k].ID],
                      [id \in DOMAIN settled[call[c].inst].Allocations |-> TRUE])
       /\ Returning(c, "ListAllocationsByPool")
          => Reflects(settled[call[c].inst].Allocations, call'[c].allocs,
                      [k \in DOMAIN call'[c].allocs |-> call'[c].allocs[k].ID],
                      [id \in DOMAIN settled[call[c].inst].Allocations |->
                         settled[call[c].inst].Allocations[id].present
                         /\ settled[call[c].inst].Allocations[id].value.PoolName
                              = call[c].key])]_vars

\* one worker's save of an allocation returned successfully; the other
\* worker's list of the pool's allocations, returning after it, shows the
\* allocation
C14_Witness ==
  /\ call["w1"].op = "SaveAllocation" /\ call["w1"].at = "returned"
  /\ call["w1"].err = ""
  /\ call["w1"].key \in DOMAIN settled["s1"].Allocations
  /\ settled["s1"].Allocations[call["w1"].key].present
  /\ call["w2"].op = "ListAllocationsByPool" /\ call["w2"].at = "returned"
  /\ call["w2"].allocs = <<call["w1"].arg>>


\* this step is caller c's mutating call returning
MutatorReturns(c) ==
  \/ Returning(c, "SavePool") \/ Returning(c, "DeletePool")
  \/ Returning(c, "SaveAllocation") \/ Returning(c, "DeleteAllocation")

\* this step is one of a mutating call on instance i, inside the lock and
\* before its write request
MutatorWriting(i) ==
  \E c \in Callers :
    /\ call[c].inst = i /\ call[c].op \in Mutators
    /\ call[c].at = "inside" /\ call[c].put = "" /\ smu[i].writer = c
    /\ call'[c] # call[c]

\* C15: no value that crossed the store boundary aliases the store's data:
\* whatever a caller does to a value a get or a list returned, elements of a
\* pool's cidrs included, or to a value it passed to savePool or
\* saveAllocation, the data of an instance changes only in a step of one of
\* its mutating calls (or when the instance is built).
C15_DataChangesOnlyThroughMutators ==
  [][\A i \in Instances :
       store'[i] # store[i] => store[i] = NotBuilt \/ MutatorWriting(i)]_vars


\* this step is the one in which caller c's call of op looks its key up
Looking(c, op) ==
  /\ call[c].op = op /\ call[c].at = "inside" /\ call[c].put = ""
  /\ call'[c] # call[c]

\* the call of c looking its key up in this step returns NotFound exactly
\* when key call[c].key is not in the map m
NotFoundIffAbsent(c, m) ==
  (call'[c].at = "returned" /\ call'[c].err = ErrNotFound)
    <=> call[c].key \notin DOMAIN m

\* the delete of c, in whichever step it returns NotFound, has changed neither
\* the instance nor the object and has sent no write
NotFoundChangesNothing(c) ==
  (call'[c].at = "returned" /\ call'[c].err = ErrNotFound) =>
    /\ call[c].put = "" /\ call'[c].puts = 0
    /\ store' = store /\ remote' = remote

\* C16: getPool, getAllocation, deletePool and deleteAllocation return
\* NotFound exactly when the key is absent from the dataset when the call,
\* inside the lock, looks it up; a delete that returns NotFound leaves the in-memory dataset and the
\* durable document as they were and issues no write.
C16_NotFoundExactlyWhenAbsent ==
  [][\A c \in Callers :
       /\ Looking(c, "GetPool")
          => NotFoundIffAbsent(c, store[call[c].inst].data.Pools)
       /\ Looking(c, "GetAllocation")
          => NotFoundIffAbsent(c, store[call[c].inst].data.Allocations)
       /\ Looking(c, "DeletePool")
          => NotFoundIffAbsent(c, store[call[c].inst].data.Pools)
       /\ Looking(c, "DeleteAllocation")
          => NotFoundIffAbsent(c, store[call[c].inst].data.Allocations)
       /\ (Returning(c, "DeletePool") \/ Returning(c, "DeleteAllocation"))
          => NotFoundChangesNothing(c)]_vars

\* a pool was saved and deleted; one worker's second delete of it returned
\* NotFound without a write, and the other worker's get returned NotFound
C16_Witness ==
  /\ remote # NoObject
  /\ call["w1"].op = "DeletePool" /\ call["w1"].at = "returned"
  /\ call["w1"].err = ErrNotFound /\ call["w1"].puts = 0
  /\ call["w2"].op = "GetPool" /\ call["w2"].at = "returned"
  /\ call["w2"].err = ErrNotFound
  /\ call["w1"].key \in DOMAIN settled["s1"].Pools


\* the document doc holds the dataset data, all of it and nothing else
HoldsAll(doc, data) ==
  /\ doc.kind = "document"
  /\ DOMAIN doc.pools = DOMAIN data.Pools
  /\ \A n \in DOMAIN data.Pools :
       doc.pools[n].name = data.Pools[n].Name /\ doc.pools[n].cidrs = data.Pools[n].CIDRs
  /\ DOMAIN doc.allocations = DOMAIN data.Allocations
  /\ \A id \in DOMAIN data.Allocations :
       /\ doc.allocations[id].id = data.Allocations[id].ID
       /\ doc.allocations[id].pool_name = data.Allocations[id].PoolName
       /\ doc.allocations[id].allocated_cidr = data.Allocations[id].AllocatedCIDR
       /\ doc.allocations[id].prefix_length = data.Allocations[id].PrefixLength

\* C17: when a mutating call (savePool, deletePool, saveAllocation,
\* deleteAllocation) returns successfully, the durable document holds the
\* instance's complete current dataset and nothing else: every write is a
\* write of the whole dataset.
C17_DocumentHoldsWholeDataset ==
  [][\A c \in Callers :
       (MutatorReturns(c) /\ call'[c].err = "")
       => HoldsAll(remote', store'[call[c].inst].data)]_vars


\* the backends Factory knows (interface.go 62-69)
Backends == {"file", "azure_blob", "aws_s3"}

\* C18: a construction makes exactly one load attempt (none when it has
\* failed before: C19 and a client that cannot be created).  When the load
\* finds the object absent the construction succeeds with an empty dataset;
\* when the load succeeds the instance holds the object's dataset; every other
\* failure of the load fails the construction, and there is no instance.
C18_OneLoadAbsentIsEmpty ==
  \A i \in Instances :
    store[i] # NotBuilt =>
      /\ store[i].loads \in {0, 1}
      /\ store[i].state = "ready" => store[i].loads = 1
      /\ store[i].loads = 1 =>
           CASE store[i].loadErr \in {NotExist(b) : b \in Backends} ->
                  /\ remote = NoObject
                  /\ store[i].state = "ready" /\ store[i].data = EmptyData
             [] store[i].loadErr = "" ->
                  /\ store[i].state = "ready" /\ HoldsAll(remote, store[i].data)
             [] OTHER -> store[i].state = "failed"
      /\ (store[i].loads = 1 /\ remote = NoObject)
           => store[i].loadErr \in {NotExist(b) : b \in Backends} \cup {"request failed"}

\* on an absent object one construction succeeded with an empty dataset after
\* its one load, and another one, whose request the backend refused, failed
C18_Witness ==
  /\ remote = NoObject
  /\ store["s1"].state = "ready" /\ store["s1"].loads = 1
  /\ store["s1"].loadErr = "NoSuchKey" /\ store["s1"].data = EmptyData
  /\ store["s2"].state = "failed" /\ store["s2"].loads = 1
  /\ store["s2"].loadErr = "request failed"

\* the configuration names a backend and lacks one of its required fields
Incomplete(config) ==
  \/ /\ config.Type = "aws_s3"
     /\ \/ config.S3Region = "" \/ config.S3BucketName = ""
        \/ (config.S3AccessKeyID = "") # (config.S3SecretAccessKey = "")
  \/ /\ config.Type = "azure_blob"
     /\ config.AzureConnectionString = "" \/ config.AzureContainerName = ""

\* the configuration's type is none of the backends'
Unrecognized(config) == config.Type \notin {"", "file", "aws_s3", "azure_blob"}

\* C19: a configuration with an unrecognized backend type, or one missing a
\* required field of its backend (aws_s3: region, bucket, or exactly one of
\* access key id and secret; azure_blob: connection string or container),
\* fails the construction before any load is attempted and yields no instance;
\* an empty backend type selects the file backend.
C19_BadConfigurationFailsBeforeLoad ==
  \A i \in Instances :
    store[i] # NotBuilt =>
      /\ (Unrecognized(store[i].config) \/ Incomplete(store[i].config))
           => store[i].state = "failed" /\ store[i].loads = 0
      /\ store[i].config.Type = ""
           => store[i].loads = 1 /\ (store[i].state = "ready" => store[i].backend = "file")

\* a construction with an access key id and no secret failed without a load,
\* and one with an empty type returned an instance of the file backend
C19_Witness ==
  /\ store["s1"].state = "failed" /\ store["s1"].loads = 0
  /\ store["s1"].config.Type = "aws_s3"
  /\ store["s1"].config.S3AccessKeyID # "" /\ store["s1"].config.S3SecretAccessKey = ""
  /\ store["s2"].state = "ready" /\ store["s2"].config.Type = ""
  /\ store["s2"].backend = "file"


\* caller c is inside the critical section of a call on instance i
InsideOn(c, i) == call[c].at = "inside" /\ call[c].inst = i

\* C20: on one instance a mutating call is never inside its critical section
\* together with any other call, reading or mutating, while any number of
\* reading calls may be inside together; and a call is inside only holding the
\* instance's mu, a mutating call as the writer and a reading call as a reader.
C20_WritersExcludeEveryone ==
  \A i \in Instances :
    /\ \A c, d \in Callers :
         (c # d /\ InsideOn(c, i) /\ InsideOn(d, i))
           => call[c].op \notin Mutators /\ call[d].op \notin Mutators
    /\ \A c \in Callers :
         InsideOn(c, i) =>
           IF call[c].op \in Mutators
           THEN smu[i].writer = c /\ smu[i].readers = {}
           ELSE smu[i].writer = "" /\ c \in smu[i].readers

\* two reading calls are inside together while the instance holds data
C20_Witness ==
  /\ store["s1"].state = "ready"
  /\ DOMAIN store["s1"].data.Pools # {}
  /\ InsideOn("w1", "s1") /\ InsideOn("w2", "s1")
  /\ call["w1"].op = "GetPool" /\ call["w2"].op = "ListPools"
  /\ smu["s1"].readers = {"w1", "w2"}

----------------------------------------------------------------------------
(* Properties of the adapter's requests (Spec and SpecRequests) *)

\* C21: a pool delete is rejected whenever a registered allocation names the
\* pool, and succeeds only when none does: no step takes a pool out of the
\* registry while an allocation naming it is registered, and no step that
\* takes a pool out changes the allocations.
C21_DeleteOnlyWithoutAllocations ==
  [][\A n \in DOMAIN pools :
       n \notin DOMAIN pools' => ~hasAllocations(n) /\ allocations' = allocations]_vars


\* a step that gives the response of a request of kind op
Responded(op) == obs' # obs /\ obs'.op = op

\* C22: an allocation request whose prefix length is below 0 or above 128 is
\* answered "Invalid Prefix Length" by the handler's first step, before the
\* pool is looked up or searched, and registers nothing; a request whose
\* prefix length is from 0 to 128 passes the validation and is answered by a
\* later step of the handler, never with "Invalid Prefix Length".
C22_PrefixLengthValidatedFirst ==
  [][Responded("alloc_create") =>
       IF obs'.prefixLength < 0 \/ obs'.prefixLength > 128
       THEN /\ obs'.err = "Invalid Prefix Length"
            /\ pc["w1"] = Idle /\ pc'["w1"] = Idle
            /\ allocations' = allocations /\ tfAllocs' = tfAllocs
            /\ pools' = pools /\ mu' = mu
       ELSE /\ obs'.err # "Invalid Prefix Length"
            /\ pc["w1"].op \in {"lock", "allocate", "search", "created"}]_vars

\* a request for /129 from the unregistered pool is answered with the prefix
\* length's error, not the pool's, while an allocation is registered
C22_Witness ==
  /\ obs.op = "alloc_create" /\ obs.name = "q" /\ obs.prefixLength = 129
  /\ obs.err = "Invalid Prefix Length"
  /\ allocations # EmptyMap


\* every element of the list names a block
AllWellFormed(cidrs) == \A i \in 1..Len(cidrs) : IsBlock(cidrs[i])

\* C23: a pool create or update whose list has an element that is no CIDR is
\* answered "Invalid CIDR" and leaves the registries as they were, any other
\* list is accepted; so every registered pool holds well-formed CIDRs only.
C23_InvalidCIDRChangesNothing ==
  [][/\ Responded("pool_create") \/ Responded("pool_update") =>
          IF AllWellFormed(obs'.cidrs)
          THEN obs'.err = ""
          ELSE /\ obs'.err = "Invalid CIDR"
               /\ pools' = pools /\ allocations' = allocations
               /\ tfAllocs' = tfAllocs
     /\ \A n \in DOMAIN pools' : AllWellFormed(pools'[n].CIDRs)]_vars

\* an update whose second element is no CIDR was refused and the pool keeps
\* the list it had
C23_Witness ==
  /\ obs.op = "pool_update" /\ obs.cidrs = <<Low, BadText>>
  /\ obs.err = "Invalid CIDR"
  /\ "p" \in DOMAIN pools /\ pools["p"].CIDRs = <<High, Low>>


\* C24: an allocation request that names a pool which is not registered ends
\* with the pool-not-found error, and no step of it changes the pools or the
\* allocations; the error is given for no registered pool.
C24_UnknownPoolChangesNothing ==
  [][/\ pc["w1"].op \in {"lock", "allocate"} /\ pc["w1"].poolName \notin DOMAIN pools =>
          /\ pools' = pools /\ allocations' = allocations /\ tfAllocs' = tfAllocs
          /\ pc["w1"].op = "allocate" => pc'["w1"] = Idle
          /\ pc'["w1"] = Idle =>
               /\ Responded("alloc_create") /\ obs'.err = "pool not found"
               /\ obs'.name = pc["w1"].poolName
     /\ Responded("alloc_create") /\ obs'.err = "pool not found" =>
          obs'.name \notin DOMAIN pools]_vars


\* C25: the CIDR list a pool is registered with by create and by update is
\* exactly the sequence given, the same elements in the same order with its
\* repetitions (a resource that has no provider registers nothing and keeps
\* the list in Terraform's state alone); no other step changes the list of
\* a registered pool, and the list an allocation request reads from the
\* registry is the registered one.
C25_CIDRListKeptAsGiven ==
  [][/\ (Responded("pool_create") \/ Responded("pool_update")) /\ obs'.err = "" =>
          /\ obs'.name \in DOMAIN pools' \/ pools' = pools
          /\ obs'.name \in DOMAIN pools' => pools'[obs'.name].CIDRs = obs'.cidrs
     /\ \A n \in DOMAIN pools \cap DOMAIN pools' :
          pools'[n].CIDRs # pools[n].CIDRs =>
            /\ Responded("pool_create") \/ Responded("pool_update")
            /\ obs'.name = n /\ obs'.err = ""
     /\ pc'["w1"].op = "search" =>
          pc'["w1"].pool.CIDRs = pools'[pc'["w1"].poolName].CIDRs]_vars

\* the pool was updated to a list with one range twice, and an allocation
\* request has read that list
C25_Witness ==
  /\ obs.op = "pool_update" /\ obs.err = "" /\ obs.cidrs = <<Low, Low>>
  /\ "p" \in DOMAIN pools /\ pools["p"].CIDRs = <<Low, Low>>
  /\ pc["w1"].op = "search" /\ pc["w1"].pool.CIDRs = <<Low, Low>>


\* the response is that of an allocation request which follows the delete of
\* an allocation of the same pool and prefix length
AfterDelete ==
  /\ obs.op = "alloc_create" /\ obs.prev.op = "alloc_delete"
  /\ obs.prev.name = obs.name /\ obs.prev.prefixLength = obs.prefixLength

\* the request returned the block the deleted allocation held
SameBlockAgain == obs.err = "" /\ obs.allocatedIP = obs.prev.allocatedIP

ListAsAllocated == obs.prev.cidrs = obs.cidrs

\* the registry the request ran against, with the deleted allocation put back
StillHeld ==
  MapPut(obs.before, obs.prev.allocationID,
         [ID |-> obs.prev.allocationID, PoolName |-> obs.prev.name,
          AllocatedIP |-> obs.prev.allocatedIP,
          PrefixLength |-> obs.prev.prefixLength])

\* the request ended as it ends on the registry that still holds the deleted
\* allocation: with the same block, or with the same error (the pool's list
\* is the one the request read: a step that changes it sets another response)
AsIfStillHeld ==
  \A order \in MapOrders(StillHeld) :
    LET held == allocateCIDRFromPool(pools, StillHeld, order, obs.name,
                                     obs.prefixLength)
    IN held.err = obs.err /\ held.allocatedIP = obs.allocatedIP

----------------------------------------------------------------------------
(* Properties of the search's functions (SpecFunctions) *)

\* ip plus blockIndex * 2^(totalBits - prefixLength), wrapping at ip's width
OffsetSum(ip, blockIndex, prefixLength) ==
  NthBlock([ip |-> ip, n |-> 8 * Len(ip)], prefixLength, blockIndex).ip

\* C27: addIPOffset leaves in ip the full-width unsigned sum of the base and
\* blockIndex * 2^(totalBits - prefixLength), its carries propagated, for
\* every base, block index and prefix length within the address's width.
C27_OffsetIsFullWidthSum ==
  obs.op = "addIPOffset" =>
    obs.result = OffsetSum(obs.ip, obs.blockIndex, obs.prefixLength)


\* 2^d for 0 <= d <= 128, as 17 big-endian bytes
WidePow2(d) == [i \in 1..17 |-> IF 17 - i = d \div 8 THEN Pow2(d % 8) ELSE 0]

\* a signed 64-bit integer, as 17 big-endian bytes in two's complement
Wide(x) == [i \in 1..17 |-> IF i <= 9 THEN (IF x[1] >= 128 THEN 255 ELSE 0) ELSE x[i - 9]]

\* C28: for a range of prefix P and a requested prefix L with P <= L within
\* the address's width, findAvailableCIDR counts exactly 2^(L - P) candidate
\* blocks, /128 out of /0 included, so never zero or a negative number; a
\* request with L < P is answered as larger than the range.
C28_BlockCountIsPowerOfTwo ==
  obs.op = "numBlocks" =>
    IF obs.prefixLength < obs.poolPrefixLen THEN obs.found = NilNet
    ELSE WidePow2(obs.prefixLength - obs.poolPrefixLen) = Wide(obs.numBlocks)


\* C29: for blocks of one family, each aligned to its prefix, cidrsOverlap
\* with a list is true exactly when the candidate shares an address with an
\* element of the list; with one element it is true exactly when the two
\* blocks share an address, whichever of the two is the candidate.
C29_OverlapIsSharedAddress ==
  obs.op = "cidrsOverlap" =>
    /\ obs.result <=> \E i \in 1..Len(obs.allocated) :
                        Overlap(obs.candidate, obs.allocated[i])
    /\ \A i \in 1..Len(obs.allocated) :
         /\ obs.each[i] <=> Overlap(obs.candidate, obs.allocated[i])
         /\ obs.converse[i] <=> obs.each[i]


----------------------------------------------------------------------------
(* Properties of the store's persistence (SpecStore) *)

\* the dataset the object obj holds: that of its document, none without one
PersistedIn(obj) == IF obj.kind = "document" THEN Unmarshal(obj) ELSE EmptyData

\* no mutating call is inside its critical section on instance i after the step
QuietAfter(i) ==
  \A c \in Callers :
    ~(call'[c].at = "inside" /\ call'[c].inst = i /\ call'[c].op \in Mutators)

\* this step is caller c's mutating call returning the error of a write the
\* backend refused
WriteFailed(c) ==
  MutatorReturns(c) /\ call[c].put = "refused"
  /\ call'[c].err = "failed to upload s3 object"

\* C30: whenever no mutating call is in progress on a ready instance, the
\* dataset its reads serve is the one of the last persisted document; and a
\* save or delete whose write the backend refuses returns the error and
\* leaves the dataset the reads serve as it was, the one of the document the
\* refused write did not replace.
C30_ReadsServeThePersistedDocument ==
  [][\A i \in Instances :
       /\ store'[i].state = "ready" /\ QuietAfter(i) =>
            store'[i].data = PersistedIn(remote')
       /\ \A c \in Callers :
            WriteFailed(c) /\ call[c].inst = i =>
              remote' = remote /\ store'[i].data = PersistedIn(remote)]_vars


----------------------------------------------------------------------------
(* Frame properties of the requests and of the store's calls *)

\* C31: a successful allocation request adds exactly one allocation entry,
\* under an id that was not registered, and changes no pool and no
\* allocation that was registered: the entry is added by the step in which
\* allocateCIDRFromPool returns, and the step that sets the state and gives
\* the response changes no pool and no allocation; a request that fails
\* (invalid prefix length, no provider, pool not found, no available block)
\* changes no pool, no allocation and nothing of Terraform's state; the steps
\* of a request before the return change neither pools nor allocations.
C31_AllocationAddsExactlyOneEntry ==
  [][/\ pc["w1"].op = "search" /\ pc'["w1"].op = "created" =>
          /\ pools' = pools
          /\ pc'["w1"].data.ID \notin DOMAIN allocations
          /\ DOMAIN allocations' = DOMAIN allocations \cup {pc'["w1"].data.ID}
          /\ \A id \in DOMAIN allocations : allocations'[id] = allocations[id]
          /\ allocations'[pc'["w1"].data.ID] = pc'["w1"].data
          /\ pc'["w1"].data.PoolName = pc["w1"].poolName
     /\ Responded("alloc_create") /\ obs'.err = "" =>
          /\ pc["w1"].op = "created" /\ obs'.allocationID = pc["w1"].data.ID
          /\ obs'.name = pc["w1"].data.PoolName
          /\ pools' = pools /\ allocations' = allocations
     /\ Responded("alloc_create") /\ obs'.err # "" =>
          pools' = pools /\ allocations' = allocations /\ tfAllocs' = tfAllocs
     /\ pc'["w1"].op \in {"lock", "allocate", "search"} =>
          pools' = pools /\ allocations' = allocations /\ tfAllocs' = tfAllocs]_vars

\* a request succeeded while another allocation was registered
C31_Witness ==
  /\ obs.op = "alloc_create" /\ obs.err = ""
  /\ Cardinality(DOMAIN allocations) = 2
  /\ obs.allocationID \in DOMAIN allocations

\* the entries of m under the keys other than key are those of n
OthersKept(m, n, key) ==
  /\ DOMAIN m \ {key} = DOMAIN n \ {key}
  /\ \A k \in DOMAIN m \ {key} : n[k] = m[k]

\* C32: a mutating store call changes, in the instance's dataset, only the
\* entry of its own key, in every step it takes inside the lock: SavePool and
\* DeletePool leave every other pool and every allocation as they were,
\* SaveAllocation and DeleteAllocation every other allocation and every pool;
\* DeletePool of a registered pool removes the pool and no allocation, whether
\* or not allocations name the pool, sends the document of what is left, and
\* fails only when the backend refuses the write.
C32_MutatorsChangeOnlyTheirKey ==
  [][\A c \in Callers :
       call[c].at = "inside" /\ call'[c] # call[c] =>
         /\ call[c].op \in {"SavePool", "DeletePool"} =>
              /\ store'[call[c].inst].data.Allocations =
                   store[call[c].inst].data.Allocations
              /\ OthersKept(store[call[c].inst].data.Pools,
                            store'[call[c].inst].data.Pools, call[c].key)
         /\ call[c].op \in {"SaveAllocation", "DeleteAllocation"} =>
              /\ store'[call[c].inst].data.Pools = store[call[c].inst].data.Pools
              /\ OthersKept(store[call[c].inst].data.Allocations,
                            store'[call[c].inst].data.Allocations, call[c].key)
         /\ call[c].put # "" => store' = store
         /\ call[c].op = "DeletePool" /\ call[c].put = ""
            /\ call[c].key \in DOMAIN store[call[c].inst].data.Pools =>
              /\ call[c].key \notin DOMAIN store'[call[c].inst].data.Pools
              /\ call'[c].at = "inside" /\ call'[c].put = "sent"
              /\ call'[c].body = MarshalIndent(store'[call[c].inst].data)
         /\ call[c].op = "DeletePool" /\ call'[c].at = "returned"
            /\ call[c].put # "" =>
              /\ call'[c].err \in {"", "failed to upload s3 object"}
              /\ call'[c].err = "" <=> call[c].put = "ok"]_vars

\* DeletePool has succeeded on a pool that an allocation names; the
\* allocation and the other pool are in the dataset
C32_Witness ==
  /\ call["w1"].op = "DeletePool" /\ call["w1"].at = "returned"
  /\ call["w1"].key = "p" /\ call["w1"].err = ""
  /\ "q" \in DOMAIN store["s1"].data.Pools
  /\ "p" \notin DOMAIN store["s1"].data.Pools
  /\ \E id \in DOMAIN store["s1"].data.Allocations :
       store["s1"].data.Allocations[id].PoolName = "p"

----------------------------------------------------------------------------
(* Properties of two instances on one object (SpecInstances) *)

\* in this step the backend serves the write request of caller c
Served(c) == call[c].put = "sent" /\ call'[c].put \in PutOutcomes

\* C33: a store instance loads from the backend at its construction and at
\* no later time: the dataset of a built instance changes only in a step of
\* one of the instance's own mutating calls, whatever the other instance
\* writes to the object.  The write of a mutating call, when the backend
\* accepts it, replaces the object by the document of the whole dataset of
\* the call's instance, so that every entry of the object which that dataset
\* does not hold, the other instance's included, is gone from the object; a
\* refused write and every step that is no write leave the object as it was.
C33_LoadOnceAndWholeDocumentWritten ==
  [][/\ \A i \in Instances :
          store[i] # NotBuilt =>
            /\ store'[i].loads = store[i].loads /\ store'[i].loads <= 1
            /\ store'[i].state = store[i].state
            /\ store'[i].data # store[i].data => MutatorWriting(i)
     /\ remote' # remote => \E c \in Callers : Served(c) /\ call'[c].put = "ok"
     /\ \A c \in Callers :
          Served(c) =>
            IF call'[c].put = "ok"
            THEN /\ remote' = MarshalIndent(store[call[c].inst].data)
                 /\ \A j \in Instances : \A id \in DOMAIN settled[j].Allocations :
                      id \notin DOMAIN store[call[c].inst].data.Allocations =>
                        id \notin DOMAIN remote'.allocations
            ELSE remote' = remote]_vars

\* the lost update: after two store calls, "s2" has saved allocation "a"
\* successfully, then "s1", built before that save, has saved pool "p"
\* successfully, and the object holds the pool and not the allocation
C33_Witness ==
  /\ calls = 2
  /\ call["w1"].op = "SavePool" /\ call["w1"].inst = "s1"
  /\ call["w1"].at = "returned" /\ call["w1"].err = ""
  /\ "a" \in DOMAIN settled["s2"].Allocations
  /\ settled["s2"].Allocations["a"].present
  /\ "a" \in DOMAIN store["s2"].data.Allocations
  /\ remote.kind = "document"
  /\ "a" \notin DOMAIN remote.allocations /\ "p" \in DOMAIN remote.pools

----------------------------------------------------------------------------
(* Properties of concurrent requests (Spec) *)

\* C34: however a pool delete and concurrent allocation requests on the
\* pool interleave, every registered allocation names a registered pool: no
\* state has an allocation whose pool has been removed.
C34_NoAllocationOfARemovedPool ==
  \A id \in DOMAIN allocations : allocations[id].PoolName \in DOMAIN pools

----------------------------------------------------------------------------
(* Properties of progress (SpecLive) *)

\* worker w, caller c holds a lock
HoldsAdapterMu(w) == mu = w
HoldsStoreMu(c) == \E i \in Instances : HoldsMu(c, i)

\* worker w is in no request, caller c is in no call
AtRest(w) == pc[w] = Idle
CallAtRest(c) == call[c].at \in {"idle", "returned"}

\* the locks are released on every return path and never taken twice
LocksReleased ==
  /\ \A w \in Workers :
       /\ (AtRest(w) \/ pc[w].op \in {"lock", "pool_delete"}) => ~HoldsAdapterMu(w)
       /\ pc[w].op \in {"created", "deleted", "imported"} => ~HoldsAdapterMu(w)
       /\ pc[w].op = "search" => HoldsAdapterMu(w)
  /\ \A c \in Callers :
       (CallAtRest(c) \/ call[c].at = "waiting") => ~HoldsStoreMu(c)

\* C35: a request or call that is at rest, whether it has not started or has
\* returned, with or without an error, holds no lock, and one that waits for
\* a lock does not hold that lock, nor does a handler that goes on after its
\* critical section; so, the scheduler being fair, every request and every
\* call that has started returns, whatever failed before.
C35_LocksReleasedAndCallsComplete ==
  /\ []LocksReleased
  /\ \A w \in Workers : ~AtRest(w) ~> AtRest(w)
  /\ \A c \in Callers : ~CallAtRest(c) ~> CallAtRest(c)

----------------------------------------------------------------------------
(* Properties of the search step by step (SpecScan) *)

\* the search of "w1" is running
Scanning == pc["w1"].op \in {"search", "range", "block"}

\* how far the search of request p is from the end of the loop over the
\* ranges: two for every range not visited, one for a range it is inside
Stage(p) == IF p.op = "block" THEN 2 * Len(p.cidrs) + 1 ELSE 2 * Len(Unvisited(p))

\* the blocks the loop of request p, which is at a block, has before it
MoreBlocks(p) ==
  I64Above(numBlocks(p.prefixLength - MaskSize(p.poolNet.Mask)[1]), p.i)

\* what allocateCIDRFromPool, taken in one piece, returns for the request
\* of the last response
InOnePiece ==
  allocateFound(obs.before, obs.request.poolName, obs.request.prefixLength,
                searchRanges(obs.request.pool.CIDRs, obs.request.prefixLength,
                             obs.request.allocatedCIDRs))

\* the response of a search is that of the search taken in one piece
AsInOnePiece ==
  obs.op = "scan" =>
    /\ obs.after = InOnePiece.allocations
    /\ InOnePiece.err \in {"", "no available CIDR blocks"}
    /\ InOnePiece.err = "" <=> obs.after # obs.before

\* C36: for every pool, with no range, with ranges of one family or of both,
\* and every prefix length from 0 to 128 the search ends after finitely many
\* candidate checks: every step of it either goes on to the next block of
\* the same range, which is below the range's block count, or enters a
\* range, or finishes with a range, or returns; it returns a candidate, which
\* is registered, or the exhaustion error, the result the search has when
\* taken in one piece; while it runs it holds the lock and no step of it
\* waits: a search that has started returns.
C36_SearchEndsAfterFinitelyManyChecks ==
  /\ [](Scanning => mu = "w1")
  /\ []AsInOnePiece
  /\ [][Scanning =>
          /\ pools' = pools /\ pc'["w2"] = pc["w2"]
          /\ pc'["w1"].op \in {"range", "block", "idle", "created"}
          /\ pc'["w1"].op \in {"range", "block"} =>
               /\ allocations' = allocations /\ mu' = mu
               /\ \/ Stage(pc'["w1"]) < Stage(pc["w1"])
                  \/ /\ Stage(pc'["w1"]) = Stage(pc["w1"])
                     /\ pc["w1"].op = "block" /\ pc'["w1"].op = "block"
                     /\ pc'["w1"].poolNet = pc["w1"].poolNet
                     /\ MoreBlocks(pc["w1"]) /\ pc'["w1"].i = pc["w1"].i + 1
          /\ pc'["w1"].op \in {"idle", "created"} =>
               /\ mu' = "free" /\ obs'.op = "scan"
               /\ obs'.request = pc["w1"] /\ obs'.before = allocations
               /\ obs'.after = allocations']_vars
  /\ Scanning ~> pc["w1"] = Idle

\* a search has returned a candidate of the second range of its pool, found
\* at the second block of that range, after the first range had none
C36_Witness ==
  /\ obs.op = "scan" /\ obs.after # obs.before
  /\ obs.request.op = "block" /\ obs.request.i = 1
  /\ Len(obs.request.pool.CIDRs) = 2 /\ obs.request.cidrs = <<>>


\* the ranges of cidrs that are as wide as 128 bits: all but the IPv4 ranges
WideRanges(cidrs) ==
  SelectSeq(cidrs, LAMBDA c : MaskSize(ParseCIDR(c).Mask)[2] = 128)

\* C37: a request with a prefix length of 33 to 128 is accepted by Create
\* and searched for; inside an IPv4 range, whose addresses have 32 bits, no
\* block is a candidate: the search leaves the range for the next one and
\* registers nothing.  What the request returns is what the search over the
\* pool's other ranges returns, and with no other range it is the return
\* after the loop over the ranges, the exhaustion error, with no allocation
\* registered.
C37_TooLongForTheRangeIsExhaustion ==
  /\ [](obs.op = "scan" /\ obs.request.prefixLength > 32 =>
          /\ obs.after =
               allocateFound(obs.before, obs.request.poolName,
                             obs.request.prefixLength,
                             searchRanges(WideRanges(obs.request.pool.CIDRs),
                                          obs.request.prefixLength,
                                          obs.request.allocatedCIDRs)).allocations
          /\ WideRanges(obs.request.pool.CIDRs) = <<>> =>
               /\ obs.request.op \in {"search", "range"}
               /\ obs.after = obs.before)
  /\ [][/\ pc["w1"].op = "block" /\ pc["w1"].prefixLength > 32
            /\ MaskSize(pc["w1"].poolNet.Mask)[2] = 32
          => /\ pc'["w1"] = RangeAt(pc["w1"], pc["w1"].cidrs)
             /\ allocations' = allocations /\ tfAllocs' = tfAllocs
        /\ /\ Scanning /\ pc["w1"].prefixLength > 32 /\ pc'["w1"] = Idle
            /\ WideRanges(pc["w1"].pool.CIDRs) = <<>>
          => /\ pc["w1"].op \in {"search", "range"} /\ Unvisited(pc["w1"]) = <<>>
             /\ allocations' = allocations /\ tfAllocs' = tfAllocs]_vars

\* a /33 was asked of the pool of two IPv4 ranges none of whose addresses was
\* allocated; the search went through both ranges and returned with nothing
\* registered
C37_Witness ==
  /\ obs.op = "scan" /\ obs.request.prefixLength = 33
  /\ obs.request.pool.CIDRs = <<Low, High>>
  /\ obs.request.op = "range" /\ obs.request.cidrs = <<>>
  /\ obs.request.allocatedCIDRs = <<>>
  /\ obs.before = EmptyMap /\ obs.after = EmptyMap


\* the address written in the CIDR text has no bit set below the text's mask
\* length
HostBitsZero(text) ==
  /\ ~ParseFails(text)
  /\ IPMaskWith(text.ip, CIDRMask(text.n, 8 * Len(text.ip))) = text.ip

\* C38: every registered allocation has the prefix length of its CIDR text
\* as its PrefixLength, and the address of the text has all host bits zero;
\* the allocation a request has registered has the prefix length that was
\* requested.
C38_PrefixLengthIsTheMaskLength ==
  /\ \A id \in DOMAIN allocations :
       /\ allocations[id].PrefixLength = allocations[id].AllocatedIP.n
       /\ HostBitsZero(allocations[id].AllocatedIP)
  /\ obs.op = "scan" =>
       \A id \in DOMAIN obs.after \ DOMAIN obs.before :
         obs.after[id].PrefixLength = obs.request.prefixLength

============================================================================
